---------------------------- MODULE Spec2Model ----------------------------
(***************************************************************************)
(* Hasami Shogi: the rules engine (hasami_shogi.py, class HasamiShogi) and *)
(* the search engine (ia_shogi.py, class IA).                              *)
(*                                                                         *)
(* A board is a function from the cells <<i, j>>, 0 <= i, j < 9, to        *)
(* 0 (empty), 1 (black, SIDE_A) or 2 (white, SIDE_B).  None is written 0   *)
(* for a winner and <<>> for a cell; Python's truth test "if x:" is x # 0. *)
(* Scores are the source's floats times ten, so that the weights 0.3 and   *)
(* 0.5 are the integers 3 and 5; +inf and -inf are Inf and -Inf.           *)
(***************************************************************************)
EXTENDS Integers, Sequences, FiniteSets, TLC

VARIABLES jeu,      \* the HasamiShogi object: its fields as a record
          ia,       \* the IA object consulted by the loop: its fields
          dernier,  \* what the last loop iteration did (history, for the properties)
          nb_coups, \* loop iterations so far (coups_joues of jouer_partie)
          historique, \* the positions <<board, side to move>> that have occurred
          entrees   \* the bound on the inputs: zone, the cells clicks and chosen
                    \* moves are drawn from, and fin, where nb_coups stops

vars == <<jeu, ia, dernier, nb_coups, historique, entrees>>

-----------------------------------------------------------------------------
(* The board *)

taille_plateau == 9

Idx == 0..(taille_plateau - 1)

Cells == Idx \X Idx

\* np.zeros((9, 9)) followed by initialiser_plateau: row 0 black, row 8 white
initialiser_plateau ==
    [c \in Cells |-> IF c[1] = 0 THEN 1
                     ELSE IF c[1] = taille_plateau - 1 THEN 2 ELSE 0]

\* np.sum(plateau == v)
Compter(b, v) == Cardinality({c \in Cells : b[c] = v})

\* the element of a set of one element
Seul(S) == CHOOSE x \in S : TRUE

\* x in liste
Dans(x, liste) == \E n \in 1..Len(liste) : liste[n] = x

\* the cells of a list, as a set
Ensemble(liste) == {liste[n] : n \in 1..Len(liste)}

-----------------------------------------------------------------------------
(* HasamiShogi: the moves of one piece *)

\* Variant of Glisser in which an occupied cell is skipped instead of ending
\* the loop ("continue" for "break"): C4 must tell it from Glisser.
RECURSIVE GlisserSaute(_, _, _, _, _)
GlisserSaute(b, k, l, dk, dl) ==
    IF ~(k \in Idx /\ l \in Idx) THEN <<>>
    ELSE IF b[<<k, l>>] = 0
         THEN <<<<k, l>>>> \o GlisserSaute(b, k + dk, l + dl, dk, dl)
         ELSE GlisserSaute(b, k + dk, l + dl, dk, dl)

\* One "while 0 <= k < taille_plateau" loop of obtenir_coups_valides and of
\* obtenir_tous_coups_possibles: the empty cells from <<k, l>> on, stepping
\* by <<dk, dl>>, up to the first occupied cell or the edge.
RECURSIVE Glisser(_, _, _, _, _)
Glisser(b, k, l, dk, dl) ==
    IF ~(k \in Idx /\ l \in Idx) THEN <<>>
    ELSE IF b[<<k, l>>] = 0
         THEN <<<<k, l>>>> \o Glisser(b, k + dk, l + dl, dk, dl)
         ELSE <<>>

\* HasamiShogi.obtenir_coups_valides(position): no test of the cell's owner
obtenir_coups_valides(b, position) ==
    LET i == position[1]
        j == position[2]
    IN  Glisser(b, i, j - 1, 0, -1) \o Glisser(b, i, j + 1, 0, 1)
        \o Glisser(b, i - 1, j, -1, 0) \o Glisser(b, i + 1, j, 1, 0)

-----------------------------------------------------------------------------
(* HasamiShogi: captures *)

\* Variant of ScanJeu that captures only the piece next to the destination
\* when the run is closed: C2 must tell it from ScanJeu.
RECURSIVE ScanJeuUnSeul(_, _, _, _, _, _, _)
ScanJeuUnSeul(b, joueur, k, l, dk, dl, acc) ==
    IF ~(k \in Idx /\ l \in Idx) THEN <<>>
    ELSE IF b[<<k, l>>] = 0 THEN <<>>
    ELSE IF b[<<k, l>>] = joueur THEN (IF acc = <<>> THEN <<>> ELSE <<acc[1]>>)
    ELSE ScanJeuUnSeul(b, joueur, k + dk, l + dl, dk, dl, Append(acc, <<k, l>>))

\* One ray of verifier_capture (the while loop of lines 377-387): acc is
\* pions_adverses; the result is what the ray adds to captures.
RECURSIVE ScanJeu(_, _, _, _, _, _, _)
ScanJeu(b, joueur, k, l, dk, dl, acc) ==
    IF ~(k \in Idx /\ l \in Idx) THEN <<>>
    ELSE IF b[<<k, l>>] = 0 THEN <<>>
    ELSE IF b[<<k, l>>] = joueur THEN acc
    ELSE IF b[<<k, l>>] = 3 - joueur
         THEN ScanJeu(b, joueur, k + dk, l + dl, dk, dl, Append(acc, <<k, l>>))
         ELSE ScanJeu(b, joueur, k + dk, l + dl, dk, dl, acc)

\* the four orthogonal rays, in the order of line 374
DirsOrtho == << <<0, 1>>, <<1, 0>>, <<0, -1>>, <<-1, 0>> >>

\* the four diagonal rays, in the order of line 391
DirsDiag == << <<-1, -1>>, <<-1, 1>>, <<1, -1>>, <<1, 1>> >>

\* "for di, dj in dirs:" of verifier_capture, from direction number n on
RECURSIVE ScanDirs(_, _, _, _, _)
ScanDirs(b, joueur, position, dirs, n) ==
    IF n > Len(dirs) THEN <<>>
    ELSE ScanJeu(b, joueur, position[1] + dirs[n][1], position[2] + dirs[n][2],
                 dirs[n][1], dirs[n][2], <<>>)
         \o ScanDirs(b, joueur, position, dirs, n + 1)

\* the corners, in the order of line 408
coins == << <<0, 0>>, <<0, taille_plateau - 1>>, <<taille_plateau - 1, 0>>,
            <<taille_plateau - 1, taille_plateau - 1>> >>

\* the two cells tested beside a corner (lines 413, 418, 423, 428)
VoisinsCoin(c) ==
    << <<c[1], IF c[2] = 0 THEN 1 ELSE taille_plateau - 2>>,
       <<IF c[1] = 0 THEN 1 ELSE taille_plateau - 2, c[2]>> >>

\* Variant of CoinPris for which one piece of the mover beside the corner is
\* enough: C9 must tell it from CoinPris.
CoinPrisUnVoisin(b, joueur, c) ==
    /\ b[c] = 3 - joueur
    /\ \/ b[VoisinsCoin(c)[1]] = joueur
       \/ b[VoisinsCoin(c)[2]] = joueur

\* the test of one corner in the loop of lines 409-430
CoinPris(b, joueur, c) ==
    /\ b[c] = 3 - joueur
    /\ b[VoisinsCoin(c)[1]] = joueur
    /\ b[VoisinsCoin(c)[2]] = joueur

\* coin_capture after the loop of lines 407-430: the first corner that
\* passes the test (the loop breaks there), or None.  The loop does not read
\* the option capture_multiple_corners.
RECURSIVE CoinCapture(_, _, _)
CoinCapture(b, joueur, n) ==
    IF n > Len(coins) THEN <<>>
    ELSE IF CoinPris(b, joueur, coins[n]) THEN coins[n]
    ELSE CoinCapture(b, joueur, n + 1)

\* HasamiShogi.verifier_capture(position), on the fields of j, with the
\* board b (the board after the piece was moved)
verifier_capture(j, b, position) ==
    LET ortho == ScanDirs(b, j.joueur_actuel, position, DirsOrtho, 1)
        diag  == IF j.capture_diagonale
                 THEN ScanDirs(b, j.joueur_actuel, position, DirsDiag, 1)
                 ELSE <<>>
        coin  == CoinCapture(b, j.joueur_actuel, 1)
    IN  ortho \o diag \o (IF coin # <<>> THEN <<coin>> ELSE <<>>)

\* Variant of Retirer that empties the rows of the captured cells: C19 must
\* tell it from Retirer.
RetirerLignes(b, captures) ==
    [c \in Cells |->
        IF \E n \in DOMAIN captures : captures[n][1] = c[1] THEN 0 ELSE b[c]]

\* Variant of Retirer that turns the captured pieces into pieces of the
\* other side instead of taking them off: C32 must tell it from Retirer.
RetirerRetourne(b, captures) ==
    [c \in Cells |-> IF Dans(c, captures) /\ b[c] # 0 THEN 3 - b[c] ELSE b[c]]

\* "for i, j in captures: plateau[i][j] = 0"
Retirer(b, captures) == [c \in Cells |-> IF Dans(c, captures) THEN 0 ELSE b[c]]

-----------------------------------------------------------------------------
(* HasamiShogi: the position key, the move, the victory test *)

\* ''.join(map(str, plateau.flatten())) + str(joueur): the 81 cells row by
\* row, each as its one digit, then the digit of the side
\* the 81 cells without the digit of the side
cle_sans_joueur(b, joueur) ==
    [n \in 1..(taille_plateau * taille_plateau) |->
        b[<<(n - 1) \div taille_plateau, (n - 1) % taille_plateau>>]]

cle_position(b, joueur) ==
    [n \in 1..(taille_plateau * taille_plateau + 1) |->
        IF n <= taille_plateau * taille_plateau
        THEN b[<<(n - 1) \div taille_plateau, (n - 1) % taille_plateau>>]
        ELSE joueur]

\* positions_occurrence.get(cle, 0)
Occurrences(table, cle) == IF cle \in DOMAIN table THEN table[cle] ELSE 0

\* the limit of half-moves without capture (line 475)
LimiteSansCapture == 60

\* the number of occurrences that makes a draw (line 484)
LimiteRepetition == 3

\* Variant of NulleSansCapture that lets the 60th quiet half-move pass: C6
\* must tell it from NulleSansCapture.
NulleSansCaptureStricte(sans) == sans > LimiteSansCapture

\* the test of line 475 on the counter of half-moves without a capture
NulleSansCapture(sans) == sans >= LimiteSansCapture

\* Variant of NulleRepetition that lets the third occurrence pass: C5 must
\* tell it from NulleRepetition.
NulleRepetitionStricte(nombre) == nombre > LimiteRepetition

\* the test of line 484 on the number of occurrences of the position
NulleRepetition(nombre) == nombre >= LimiteRepetition

\* Variant of deplacer_pion without the draw after 60 half-moves without a
\* capture: C39 must tell it from deplacer_pion.
deplacer_sans_nulle(j, depart, arrivee) ==
    IF ~Dans(arrivee, j.coups_valides) THEN [jeu |-> j, ret |-> FALSE]
    ELSE
    LET deplace  == [j.plateau EXCEPT ![arrivee] = j.plateau[depart], ![depart] = 0]
        captures == verifier_capture(j, deplace, arrivee)
        apres    == Retirer(deplace, captures)
        effectuee == captures # <<>>
        sans     == IF effectuee THEN 0 ELSE j.derniere_capture + 1
        j1       == [j EXCEPT !.plateau = apres, !.capture_effectuee = effectuee,
                              !.derniere_capture = sans]
        cle      == cle_position(apres, 3 - j.joueur_actuel)
        nombre   == Occurrences(j.positions_occurrence, cle) + 1
        table    == [k \in DOMAIN j.positions_occurrence \cup {cle} |->
                        IF k = cle THEN nombre ELSE j.positions_occurrence[k]]
        j2       == [j1 EXCEPT !.positions_occurrence = table]
    IN  IF NulleRepetition(nombre)
        THEN [jeu |-> [j2 EXCEPT !.partie_terminee = TRUE, !.gagnant = 0],
              ret |-> TRUE]
        ELSE [jeu |-> j2, ret |-> TRUE]

\* Variant of deplacer_pion that counts the capturing moves too: C34 must
\* tell it from deplacer_pion.
deplacer_sans_remise(j, depart, arrivee) ==
    IF ~Dans(arrivee, j.coups_valides) THEN [jeu |-> j, ret |-> FALSE]
    ELSE
    LET deplace  == [j.plateau EXCEPT ![arrivee] = j.plateau[depart], ![depart] = 0]
        captures == verifier_capture(j, deplace, arrivee)
        apres    == Retirer(deplace, captures)
        effectuee == captures # <<>>
        sans     == j.derniere_capture + 1
        j1       == [j EXCEPT !.plateau = apres, !.capture_effectuee = effectuee,
                              !.derniere_capture = sans]
        cle      == cle_position(apres, 3 - j.joueur_actuel)
        nombre   == Occurrences(j.positions_occurrence, cle) + 1
        table    == [k \in DOMAIN j.positions_occurrence \cup {cle} |->
                        IF k = cle THEN nombre ELSE j.positions_occurrence[k]]
        j2       == [j1 EXCEPT !.positions_occurrence = table]
    IN  IF NulleSansCapture(sans)
        THEN [jeu |-> [j1 EXCEPT !.partie_terminee = TRUE, !.gagnant = 0],
              ret |-> TRUE]
        ELSE IF NulleRepetition(nombre)
        THEN [jeu |-> [j2 EXCEPT !.partie_terminee = TRUE, !.gagnant = 0],
              ret |-> TRUE]
        ELSE [jeu |-> j2, ret |-> TRUE]

\* HasamiShogi.deplacer_pion(depart, arrivee): the object after the call and
\* the value returned
deplacer_pion(j, depart, arrivee) ==
    IF ~Dans(arrivee, j.coups_valides) THEN [jeu |-> j, ret |-> FALSE]
    ELSE
    LET deplace  == [j.plateau EXCEPT ![arrivee] = j.plateau[depart], ![depart] = 0]
        captures == verifier_capture(j, deplace, arrivee)
        apres    == Retirer(deplace, captures)
        effectuee == captures # <<>>
        sans     == IF effectuee THEN 0 ELSE j.derniere_capture + 1
        j1       == [j EXCEPT !.plateau = apres, !.capture_effectuee = effectuee,
                              !.derniere_capture = sans]
        cle      == cle_position(apres, 3 - j.joueur_actuel)
        nombre   == Occurrences(j.positions_occurrence, cle) + 1
        table    == [k \in DOMAIN j.positions_occurrence \cup {cle} |->
                        IF k = cle THEN nombre ELSE j.positions_occurrence[k]]
        j2       == [j1 EXCEPT !.positions_occurrence = table]
    IN  IF NulleSansCapture(sans)
        THEN [jeu |-> [j1 EXCEPT !.partie_terminee = TRUE, !.gagnant = 0],
              ret |-> TRUE]
        ELSE IF NulleRepetition(nombre)
        THEN [jeu |-> [j2 EXCEPT !.partie_terminee = TRUE, !.gagnant = 0],
              ret |-> TRUE]
        ELSE [jeu |-> j2, ret |-> TRUE]

\* Variant of verifier_victoire that tests "<" for "<=" on seuil_defaite: C7
\* must tell it from verifier_victoire.
VictoireSeuilStrict(j) ==
    LET pions_noirs  == Compter(j.plateau, 1)
        pions_blancs == Compter(j.plateau, 2)
        ecart == IF pions_noirs >= pions_blancs THEN pions_noirs - pions_blancs
                 ELSE pions_blancs - pions_noirs
    IN  IF pions_noirs < j.seuil_defaite THEN 2
        ELSE IF pions_blancs < j.seuil_defaite THEN 1
        ELSE IF ecart >= j.seuil_ecart_victoire
             THEN (IF pions_noirs > pions_blancs THEN 1 ELSE 2)
             ELSE 0

\* Variant of verifier_victoire that tests ">" for ">=" on
\* seuil_ecart_victoire: C8 must tell it from verifier_victoire.
VictoireEcartStrict(j) ==
    LET pions_noirs  == Compter(j.plateau, 1)
        pions_blancs == Compter(j.plateau, 2)
        ecart == IF pions_noirs >= pions_blancs THEN pions_noirs - pions_blancs
                 ELSE pions_blancs - pions_noirs
    IN  IF pions_noirs <= j.seuil_defaite THEN 2
        ELSE IF pions_blancs <= j.seuil_defaite THEN 1
        ELSE IF ecart > j.seuil_ecart_victoire
             THEN (IF pions_noirs > pions_blancs THEN 1 ELSE 2)
             ELSE 0

\* Variant of verifier_victoire whose margin test names the side with fewer
\* pieces: C33 must tell it from verifier_victoire.
VictoireEcartInverse(j) ==
    LET pions_noirs  == Compter(j.plateau, 1)
        pions_blancs == Compter(j.plateau, 2)
        ecart == IF pions_noirs >= pions_blancs THEN pions_noirs - pions_blancs
                 ELSE pions_blancs - pions_noirs
    IN  IF pions_noirs <= j.seuil_defaite THEN 2
        ELSE IF pions_blancs <= j.seuil_defaite THEN 1
        ELSE IF ecart >= j.seuil_ecart_victoire
             THEN (IF pions_noirs > pions_blancs THEN 2 ELSE 1)
             ELSE 0

\* HasamiShogi.verifier_victoire(): 1, 2 or None (0)
verifier_victoire(j) ==
    LET pions_noirs  == Compter(j.plateau, 1)
        pions_blancs == Compter(j.plateau, 2)
        ecart == IF pions_noirs >= pions_blancs THEN pions_noirs - pions_blancs
                 ELSE pions_blancs - pions_noirs
    IN  IF pions_noirs <= j.seuil_defaite THEN 2
        ELSE IF pions_blancs <= j.seuil_defaite THEN 1
        ELSE IF ecart >= j.seuil_ecart_victoire
             THEN (IF pions_noirs > pions_blancs THEN 1 ELSE 2)
             ELSE 0

\* HasamiShogi.__init__: the fields after construction (the options are the
\* defaults of lines 122-125; the interface overwrites them before the loop)
NouveauJeu(mode) ==
    [plateau |-> initialiser_plateau,
     joueur_actuel |-> 1,
     derniere_capture |-> 0,
     capture_effectuee |-> FALSE,
     positions_occurrence |-> (cle_position(initialiser_plateau, 1) :> 1),
     pion_selectionne |-> <<>>,
     coups_valides |-> <<>>,
     partie_terminee |-> FALSE,
     gagnant |-> 0,
     mode_jeu |-> mode,
     capture_diagonale |-> FALSE,
     capture_multiple_corners |-> TRUE,
     seuil_defaite |-> 2,
     seuil_ecart_victoire |-> 3]

-----------------------------------------------------------------------------
(* IA: move generation and move simulation *)

\* hasattr(self, 'capture_diagonale') and self.capture_diagonale (line 269):
\* no code of the repository gives an IA object that attribute
\* an IA object that was given the attribute, set
ia_diagonale_activee == TRUE

ia_capture_diagonale == FALSE

\* the moves ((i, j), destination) for the destinations of a list
Depuis(origine, arrivees) == [n \in 1..Len(arrivees) |-> <<origine, arrivees[n]>>]

\* the moves of the piece on <<i, j>> (lines 248-278)
CoupsDuPion(b, i, j) ==
    Depuis(<<i, j>>,
           Glisser(b, i, j - 1, 0, -1) \o Glisser(b, i, j + 1, 0, 1)
           \o Glisser(b, i - 1, j, -1, 0) \o Glisser(b, i + 1, j, 1, 0)
           \o (IF ia_capture_diagonale
               THEN Glisser(b, i - 1, j - 1, -1, -1) \o Glisser(b, i - 1, j + 1, -1, 1)
                    \o Glisser(b, i + 1, j - 1, 1, -1) \o Glisser(b, i + 1, j + 1, 1, 1)
               ELSE <<>>))

\* the loop "for j in range(9)" of line 246 on row i, from column j on
RECURSIVE CoupsDepuisColonne(_, _, _, _)
CoupsDepuisColonne(b, joueur, i, j) ==
    IF j >= taille_plateau THEN <<>>
    ELSE (IF b[<<i, j>>] = joueur THEN CoupsDuPion(b, i, j) ELSE <<>>)
         \o CoupsDepuisColonne(b, joueur, i, j + 1)

\* the loop "for i in range(9)" of line 245, from row i on
RECURSIVE CoupsDepuisLigne(_, _, _)
CoupsDepuisLigne(b, joueur, i) ==
    IF i >= taille_plateau THEN <<>>
    ELSE CoupsDepuisColonne(b, joueur, i, 0) \o CoupsDepuisLigne(b, joueur, i + 1)

\* IA.obtenir_tous_coups_possibles(plateau, joueur)
obtenir_tous_coups_possibles(b, joueur) == CoupsDepuisLigne(b, joueur, 0)

\* Variant of ScanSim in which the edge closes a run as a piece of the mover
\* does: C3 must tell it from ScanSim.
RECURSIVE ScanSimBord(_, _, _, _, _, _, _)
ScanSimBord(b, joueur, k, l, dk, dl, acc) ==
    IF ~(k \in Idx /\ l \in Idx) THEN acc
    ELSE IF b[<<k, l>>] = 0 THEN <<>>
    ELSE IF b[<<k, l>>] = joueur THEN acc
    ELSE ScanSimBord(b, joueur, k + dk, l + dl, dk, dl, Append(acc, <<k, l>>))

\* One ray of simuler_coup (the while loops of lines 312-320 and 326-334)
RECURSIVE ScanSim(_, _, _, _, _, _, _)
ScanSim(b, joueur, k, l, dk, dl, acc) ==
    IF ~(k \in Idx /\ l \in Idx) THEN <<>>
    ELSE IF b[<<k, l>>] = 0 THEN <<>>
    ELSE IF b[<<k, l>>] = joueur THEN acc
    ELSE IF b[<<k, l>>] = 3 - joueur
         THEN ScanSim(b, joueur, k + dk, l + dl, dk, dl, Append(acc, <<k, l>>))
         ELSE ScanSim(b, joueur, k + dk, l + dl, dk, dl, acc)

\* IA.simuler_coup(plateau, depart, arrivee, joueur): the new board
simuler_coup(b, depart, arrivee, joueur) ==
    LET nouveau  == [b EXCEPT ![arrivee] = b[depart], ![depart] = 0]
        i_arr    == arrivee[1]
        j_arr    == arrivee[2]
        captures == ScanSim(nouveau, joueur, i_arr, j_arr - 1, 0, -1, <<>>)
                    \o ScanSim(nouveau, joueur, i_arr, j_arr + 1, 0, 1, <<>>)
                    \o ScanSim(nouveau, joueur, i_arr - 1, j_arr, -1, 0, <<>>)
                    \o ScanSim(nouveau, joueur, i_arr + 1, j_arr, 1, 0, <<>>)
    IN  Retirer(nouveau, captures)

\* Variant of Copie that takes the view without the copy, so that the writes
\* of simuler_coup reach the caller's array: C12 must tell it from Copie.
CopieVue(b) == [appelant |-> b, nouveau |-> b, partage |-> TRUE]

\* nouveau_plateau = plateau.view().copy() (line 300): the caller's array,
\* the new array, and whether the two share their cells
Copie(b) == [appelant |-> b, nouveau |-> b, partage |-> FALSE]

\* nouveau_plateau[i][j] = v (lines 303, 304 and 338)
Ecrire(t, c, v) ==
    [t EXCEPT !.nouveau[c] = v, !.appelant[c] = IF t.partage THEN v ELSE @]

RECURSIVE EcrireVides(_, _, _)
EcrireVides(t, captures, n) ==
    IF n > Len(captures) THEN t
    ELSE EcrireVides(Ecrire(t, captures[n], 0), captures, n + 1)

\* IA.simuler_coup(plateau, depart, arrivee, joueur) with the arrays it
\* reads and writes: the caller's array and the array returned, after the call
EffetSimuler(b, depart, arrivee, joueur) ==
    LET t     == Copie(b)
        pose  == Ecrire(Ecrire(t, arrivee, t.nouveau[depart]), depart, 0)
        i_arr == arrivee[1]
        j_arr == arrivee[2]
        captures == ScanSim(pose.nouveau, joueur, i_arr, j_arr - 1, 0, -1, <<>>)
                    \o ScanSim(pose.nouveau, joueur, i_arr, j_arr + 1, 0, 1, <<>>)
                    \o ScanSim(pose.nouveau, joueur, i_arr - 1, j_arr, -1, 0, <<>>)
                    \o ScanSim(pose.nouveau, joueur, i_arr + 1, j_arr, 1, 0, <<>>)
    IN  EcrireVides(pose, captures, 1)

\* IA.is_terminal_state(plateau, joueur): the thresholds are the literals 2
\* and 3 of lines 346-351
is_terminal_state(b, joueur) ==
    LET pions_noirs  == Compter(b, 1)
        pions_blancs == Compter(b, 2)
        ecart == IF pions_noirs >= pions_blancs THEN pions_noirs - pions_blancs
                 ELSE pions_blancs - pions_noirs
    IN  IF pions_noirs <= 2 THEN 2
        ELSE IF pions_blancs <= 2 THEN 1
        ELSE IF ecart >= 3 THEN (IF pions_noirs > pions_blancs THEN 1 ELSE 2)
        ELSE 0

-----------------------------------------------------------------------------
(* IA: evaluation, move ordering, minimax and alpha-beta *)

\* Scores are the floats of the code counted in tenths (the weights are 1.0,
\* 0.3 and 0.5); Inf stands for float('inf') and exceeds every evaluation.
Inf == 1000

Min(x, y) == IF x <= y THEN x ELSE y

Max(x, y) == IF x >= y THEN x ELSE y

\* menaces_simples(plateau, attaquant, cible) of lines 124-139: for each piece
\* of cible, the pieces of attaquant on the cells beside it
menaces_simples(b, attaquant, cible) ==
    Cardinality({m \in {c \in Cells : b[c] = cible} \X Ensemble(DirsOrtho) :
                    /\ <<m[1][1] + m[2][1], m[1][2] + m[2][2]>> \in Cells
                    /\ b[<<m[1][1] + m[2][1], m[1][2] + m[2][2]>>] = attaquant})

\* IA.evaluer_position_naive(plateau, joueur), in tenths
evaluer_position_naive(b, joueur) ==
    LET adv == 3 - joueur
        centre(v) == Cardinality({c \in Cells : c[1] \in 3..5 /\ c[2] \in 3..5 /\ b[c] = v})
    IN  10 * (Compter(b, joueur) - Compter(b, adv))
        + 3 * centre(joueur) - 3 * centre(adv)
        + 5 * menaces_simples(b, joueur, adv)
        - 5 * menaces_simples(b, adv, joueur)

\* menaces(plateau, attaquant, cible) of lines 183-198
menaces(b, attaquant, cible) ==
    Cardinality({m \in {c \in Cells : b[c] = cible} \X Ensemble(DirsOrtho) :
                    /\ <<m[1][1] + m[2][1], m[1][2] + m[2][2]>> \in Cells
                    /\ b[<<m[1][1] + m[2][1], m[1][2] + m[2][2]>>] = attaquant})

\* groupes(plateau, couleur) of lines 204-213: the pairs of pieces of the
\* colour side by side, counted from the left one and from the upper one
groupes(b, couleur) ==
    Cardinality({c \in Cells : /\ b[c] = couleur
                               /\ c[2] < taille_plateau - 1
                               /\ b[<<c[1], c[2] + 1>>] = couleur})
    + Cardinality({c \in Cells : /\ b[c] = couleur
                                 /\ c[1] < taille_plateau - 1
                                 /\ b[<<c[1] + 1, c[2]>>] = couleur})

\* Variant of evaluer_position that counts the corners of joueur only: C38
\* must tell it from evaluer_position.
evaluer_coins_du_joueur(b, joueur) ==
    LET adv == 3 - joueur
        centre(v) == Cardinality({c \in Cells : c[1] \in 3..5 /\ c[2] \in 3..5 /\ b[c] = v})
        coups_j == Len(obtenir_tous_coups_possibles(b, joueur))
        coups_a == Len(obtenir_tous_coups_possibles(b, adv))
        coin(c) == IF b[c] = joueur THEN 3 ELSE 0
    IN  10 * (Compter(b, joueur) - Compter(b, adv))
        + 5 * centre(joueur) - 5 * centre(adv)
        + (coups_j - coups_a)
        + 10 * menaces(b, joueur, adv) - 10 * menaces(b, adv, joueur)
        + 2 * (groupes(b, joueur) - groupes(b, adv))
        + coin(<<0, 0>>) + coin(<<0, 8>>) + coin(<<8, 0>>) + coin(<<8, 8>>)

\* IA.evaluer_position(plateau, joueur), in tenths (weights 1.0, 0.5, 0.1,
\* 1.0, 0.2 and 0.3)
evaluer_position(b, joueur) ==
    LET adv == 3 - joueur
        centre(v) == Cardinality({c \in Cells : c[1] \in 3..5 /\ c[2] \in 3..5 /\ b[c] = v})
        coups_j == Len(obtenir_tous_coups_possibles(b, joueur))
        coups_a == Len(obtenir_tous_coups_possibles(b, adv))
        coin(c) == IF b[c] = joueur THEN 3 ELSE IF b[c] = adv THEN -3 ELSE 0
    IN  10 * (Compter(b, joueur) - Compter(b, adv))
        + 5 * centre(joueur) - 5 * centre(adv)
        + (coups_j - coups_a)
        + 10 * menaces(b, joueur, adv) - 10 * menaces(b, adv, joueur)
        + 2 * (groupes(b, joueur) - groupes(b, adv))
        + coin(<<0, 0>>) + coin(<<0, 8>>) + coin(<<8, 0>>) + coin(<<8, 8>>)

\* the call eval_fonction(plateau, joueur) of the search, eval_fonction being
\* the bound method the object was built with
AppelEval(eval_fonction, b, joueur) ==
    CASE eval_fonction = "evaluer_position_naive" -> evaluer_position_naive(b, joueur)
      [] eval_fonction = "evaluer_position" -> evaluer_position(b, joueur)

\* IA.count_captured(b_old, b_new)
count_captured(b_old, b_new) ==
    Cardinality({c \in Cells : b_old[c] # 0}) - Cardinality({c \in Cells : b_new[c] # 0})

\* Variant of score_coup that ranks the centre before the captures, the pair
\* (centre, captures): C28 must tell it from score_coup.
score_centre_captures(b, joueur, action) ==
    count_captured(b, simuler_coup(b, action[1], action[2], joueur))
    + (IF action[2][1] \in 2..6 /\ action[2][2] \in 2..6 THEN 8 ELSE 0)

\* score_coup of order_moves: the pair (captures, centre), as the rank
\* 2 * captures + centre that orders the pairs as Python orders the tuples
score_coup(b, joueur, action) ==
    2 * count_captured(b, simuler_coup(b, action[1], action[2], joueur))
    + (IF action[2][1] \in 2..6 /\ action[2][2] \in 2..6 THEN 1 ELSE 0)

\* the ranks of the actions n..m of the list
RECURSIVE Rangs(_, _, _, _, _)
Rangs(actions, b, joueur, n, m) ==
    IF n > m THEN <<>>
    ELSE IF n = m THEN <<score_coup(b, joueur, actions[n])>>
    ELSE Rangs(actions, b, joueur, n, (n + m) \div 2)
         \o Rangs(actions, b, joueur, (n + m) \div 2 + 1, m)

\* the actions whose rank is r among the actions n..m, in the order of the
\* list
RECURSIVE DeRang(_, _, _, _, _)
DeRang(actions, rangs, r, n, m) ==
    IF n > m THEN <<>>
    ELSE IF n = m THEN (IF rangs[n] = r THEN <<actions[n]>> ELSE <<>>)
    ELSE DeRang(actions, rangs, r, n, (n + m) \div 2)
         \o DeRang(actions, rangs, r, (n + m) \div 2 + 1, m)

RECURSIVE TriStable(_, _, _)
TriStable(actions, rangs, r) ==
    IF r < 0 THEN <<>>
    ELSE DeRang(actions, rangs, r, 1, Len(actions)) \o TriStable(actions, rangs, r - 1)

\* IA.order_moves(actions, plateau, joueur): sorted(..., reverse=True) is
\* stable, actions of equal score keep the order of the list
order_moves(actions, b, joueur) ==
    IF actions = <<>> THEN <<>>
    ELSE Seul({TriStable(actions, rangs,
                         CHOOSE r \in Ensemble(rangs) : \A q \in Ensemble(rangs) : q <= r) :
               rangs \in {Rangs(actions, b, joueur, 1, Len(actions))}})

\* self.transpo[(h, profondeur)] = v; the 64-bit hash of the board bytes is
\* taken as injective, the key is the board and the depth
Memoriser(transpo, b, profondeur, v) ==
    [k \in DOMAIN transpo \cup {<<b, profondeur>>} |->
        IF k = <<b, profondeur>> THEN v ELSE transpo[k]]

\* The four procedures return the value and the table they leave in
\* self.transpo. A loop over a list is given by its iterations n..m, from the
\* state e the iterations before them leave; a range of several iterations
\* is its second half from the state g its first half leaves.
RECURSIVE MIN_VALUE(_, _, _, _, _)
RECURSIVE MAX_VALUE(_, _, _, _, _)
RECURSIVE AB_MIN_VALUE(_, _, _, _, _, _, _)
RECURSIVE AB_MAX_VALUE(_, _, _, _, _, _, _)
RECURSIVE BoucleMin(_, _, _, _, _, _, _, _)
RECURSIVE BoucleMax(_, _, _, _, _, _, _, _)
RECURSIVE BoucleABMin(_, _, _, _, _, _, _, _, _, _)
RECURSIVE BoucleABMax(_, _, _, _, _, _, _, _, _, _)

\* the iterations n..m of the "for action in actions" loop of MIN_VALUE
\* (lines 381-382), e.v being the minimum so far
BoucleMin(e, b, joueur, profondeur, eval_fonction, actions, n, m) ==
    IF n > m THEN e
    ELSE IF n = m
    THEN Seul({[v |-> Min(e.v, r.v), transpo |-> r.transpo] :
               r \in {MAX_VALUE(e.transpo,
                                simuler_coup(b, actions[n][1], actions[n][2], 3 - joueur),
                                joueur, profondeur - 1, eval_fonction)}})
    ELSE Seul({BoucleMin(g, b, joueur, profondeur, eval_fonction, actions,
                         (n + m) \div 2 + 1, m) :
               g \in {BoucleMin(e, b, joueur, profondeur, eval_fonction, actions,
                                n, (n + m) \div 2)}})

\* IA.MIN_VALUE(plateau, joueur, profondeur, eval_fonction)
MIN_VALUE(transpo, b, joueur, profondeur, eval_fonction) ==
    IF <<b, profondeur>> \in DOMAIN transpo
    THEN [v |-> transpo[<<b, profondeur>>], transpo |-> transpo]
    ELSE LET actions == obtenir_tous_coups_possibles(b, 3 - joueur)
         IN  IF profondeur = 0 \/ actions = <<>>
             THEN [v |-> AppelEval(eval_fonction, b, joueur), transpo |-> transpo]
             ELSE Seul({[v |-> r.v,
                         transpo |-> Memoriser(r.transpo, b, profondeur, r.v)] :
                        r \in {BoucleMin([v |-> Inf, transpo |-> transpo], b, joueur,
                                         profondeur, eval_fonction, actions,
                                         1, Len(actions))}})

\* the iterations n..m of the "for action in actions" loop of MAX_VALUE
\* (lines 395-396), e.v being the maximum so far
BoucleMax(e, b, joueur, profondeur, eval_fonction, actions, n, m) ==
    IF n > m THEN e
    ELSE IF n = m
    THEN Seul({[v |-> Max(e.v, r.v), transpo |-> r.transpo] :
               r \in {MIN_VALUE(e.transpo,
                                simuler_coup(b, actions[n][1], actions[n][2], joueur),
                                joueur, profondeur - 1, eval_fonction)}})
    ELSE Seul({BoucleMax(g, b, joueur, profondeur, eval_fonction, actions,
                         (n + m) \div 2 + 1, m) :
               g \in {BoucleMax(e, b, joueur, profondeur, eval_fonction, actions,
                                n, (n + m) \div 2)}})

\* IA.MAX_VALUE(plateau, joueur, profondeur, eval_fonction)
MAX_VALUE(transpo, b, joueur, profondeur, eval_fonction) ==
    IF <<b, profondeur>> \in DOMAIN transpo
    THEN [v |-> transpo[<<b, profondeur>>], transpo |-> transpo]
    ELSE LET actions == obtenir_tous_coups_possibles(b, joueur)
         IN  IF profondeur = 0 \/ actions = <<>>
             THEN [v |-> AppelEval(eval_fonction, b, joueur), transpo |-> transpo]
             ELSE Seul({[v |-> r.v,
                         transpo |-> Memoriser(r.transpo, b, profondeur, r.v)] :
                        r \in {BoucleMax([v |-> -Inf, transpo |-> transpo], b, joueur,
                                         profondeur, eval_fonction, actions,
                                         1, Len(actions))}})

\* the value AB_MIN_VALUE and AB_MAX_VALUE return for a board
\* is_terminal_state gives a winner (lines 405-410 and 430-435)
ValeurTerminale(gagnant, joueur) == IF gagnant = joueur THEN Inf ELSE -Inf

\* the iterations n..m of the loop of AB_MIN_VALUE (lines 416-420): e.v is
\* the minimum so far, beta of the code is Min(beta, e.v), and e.coupe tells
\* that a value v <= alpha has returned from the procedure
BoucleABMin(e, b, joueur, profondeur, alpha, beta, eval_fonction, actions, n, m) ==
    IF n > m \/ e.coupe THEN e
    ELSE IF n = m
    THEN Seul({[v |-> Min(e.v, r.v), transpo |-> r.transpo,
                coupe |-> Min(e.v, r.v) <= alpha] :
               r \in {AB_MAX_VALUE(e.transpo,
                                   simuler_coup(b, actions[n][1], actions[n][2],
                                                3 - joueur),
                                   joueur, profondeur - 1, alpha, Min(beta, e.v),
                                   eval_fonction)}})
    ELSE Seul({BoucleABMin(g, b, joueur, profondeur, alpha, beta, eval_fonction,
                           actions, (n + m) \div 2 + 1, m) :
               g \in {BoucleABMin(e, b, joueur, profondeur, alpha, beta,
                                  eval_fonction, actions, n, (n + m) \div 2)}})

\* IA.AB_MIN_VALUE(plateau, joueur, profondeur, alpha, beta, eval_fonction):
\* the return of line 419 skips the store of line 421
AB_MIN_VALUE(transpo, b, joueur, profondeur, alpha, beta, eval_fonction) ==
    IF <<b, profondeur>> \in DOMAIN transpo
    THEN [v |-> transpo[<<b, profondeur>>], transpo |-> transpo]
    ELSE IF is_terminal_state(b, joueur) # 0
    THEN [v |-> ValeurTerminale(is_terminal_state(b, joueur), joueur),
          transpo |-> transpo]
    ELSE LET actions == obtenir_tous_coups_possibles(b, 3 - joueur)
         IN  IF profondeur = 0 \/ actions = <<>>
             THEN [v |-> AppelEval(eval_fonction, b, joueur), transpo |-> transpo]
             ELSE Seul({[v |-> r.v,
                         transpo |-> IF r.coupe THEN r.transpo
                                     ELSE Memoriser(r.transpo, b, profondeur, r.v)] :
                        r \in {BoucleABMin([v |-> Inf, transpo |-> transpo,
                                            coupe |-> FALSE],
                                           b, joueur, profondeur, alpha, beta,
                                           eval_fonction, tries, 1, Len(tries)) :
                               tries \in {order_moves(actions, b, 3 - joueur)}}})

\* the iterations n..m of the loop of AB_MAX_VALUE (lines 441-445): e.v is
\* the maximum so far, alpha of the code is Max(alpha, e.v), and e.coupe
\* tells that a value v >= beta has returned from the procedure
BoucleABMax(e, b, joueur, profondeur, alpha, beta, eval_fonction, actions, n, m) ==
    IF n > m \/ e.coupe THEN e
    ELSE IF n = m
    THEN Seul({[v |-> Max(e.v, r.v), transpo |-> r.transpo,
                coupe |-> Max(e.v, r.v) >= beta] :
               r \in {AB_MIN_VALUE(e.transpo,
                                   simuler_coup(b, actions[n][1], actions[n][2], joueur),
                                   joueur, profondeur - 1, Max(alpha, e.v), beta,
                                   eval_fonction)}})
    ELSE Seul({BoucleABMax(g, b, joueur, profondeur, alpha, beta, eval_fonction,
                           actions, (n + m) \div 2 + 1, m) :
               g \in {BoucleABMax(e, b, joueur, profondeur, alpha, beta,
                                  eval_fonction, actions, n, (n + m) \div 2)}})

\* Variant of AB_MAX_VALUE that stores the value of a cut as well: C36 must
\* tell it from AB_MAX_VALUE.
AB_MAX_StockeCoupe(transpo, b, joueur, profondeur, alpha, beta, eval_fonction) ==
    IF <<b, profondeur>> \in DOMAIN transpo
    THEN [v |-> transpo[<<b, profondeur>>], transpo |-> transpo]
    ELSE IF is_terminal_state(b, joueur) # 0
    THEN [v |-> ValeurTerminale(is_terminal_state(b, joueur), joueur),
          transpo |-> transpo]
    ELSE LET actions == obtenir_tous_coups_possibles(b, joueur)
         IN  IF profondeur = 0 \/ actions = <<>>
             THEN [v |-> AppelEval(eval_fonction, b, joueur), transpo |-> transpo]
             ELSE Seul({[v |-> r.v,
                         transpo |-> Memoriser(r.transpo, b, profondeur, r.v)] :
                        r \in {BoucleABMax([v |-> -Inf, transpo |-> transpo,
                                            coupe |-> FALSE],
                                           b, joueur, profondeur, alpha, beta,
                                           eval_fonction, tries, 1, Len(tries)) :
                               tries \in {order_moves(actions, b, joueur)}}})

\* IA.AB_MAX_VALUE(plateau, joueur, profondeur, alpha, beta, eval_fonction):
\* the return of line 444 skips the store of line 446
AB_MAX_VALUE(transpo, b, joueur, profondeur, alpha, beta, eval_fonction) ==
    IF <<b, profondeur>> \in DOMAIN transpo
    THEN [v |-> transpo[<<b, profondeur>>], transpo |-> transpo]
    ELSE IF is_terminal_state(b, joueur) # 0
    THEN [v |-> ValeurTerminale(is_terminal_state(b, joueur), joueur),
          transpo |-> transpo]
    ELSE LET actions == obtenir_tous_coups_possibles(b, joueur)
         IN  IF profondeur = 0 \/ actions = <<>>
             THEN [v |-> AppelEval(eval_fonction, b, joueur), transpo |-> transpo]
             ELSE Seul({[v |-> r.v,
                         transpo |-> IF r.coupe THEN r.transpo
                                     ELSE Memoriser(r.transpo, b, profondeur, r.v)] :
                        r \in {BoucleABMax([v |-> -Inf, transpo |-> transpo,
                                            coupe |-> FALSE],
                                           b, joueur, profondeur, alpha, beta,
                                           eval_fonction, tries, 1, Len(tries)) :
                               tries \in {order_moves(actions, b, joueur)}}})

\* the procedure the root loop of choisir_coup calls: "if self.niveau == '1'"
\* (line 515), MIN_VALUE, else AB_MIN_VALUE
AlgorithmeRacine(o) == IF o.niveau = "1" THEN "minimax" ELSE "alpha_beta"

\* the best of the scores, -inf for none
RECURSIVE MeilleurDesScores(_, _)
MeilleurDesScores(scores, n) ==
    IF n = 0 THEN -Inf ELSE Max(scores[n], MeilleurDesScores(scores, n - 1))

\* Variant of ScoresRacine whose alpha-beta loop hands the best score so far
\* to AB_MIN_VALUE as alpha: C37 must tell it from ScoresRacine.
RECURSIVE ScoresRacineFenetre(_, _, _, _, _, _, _, _)
ScoresRacineFenetre(o, e, b, joueur, profondeur, coups, n, m) ==
    IF n > m THEN e
    ELSE IF n = m
    THEN Seul({[scores |-> Append(e.scores, r.v), transpo |-> r.transpo] :
               r \in {IF AlgorithmeRacine(o) = "minimax"
                      THEN MIN_VALUE(e.transpo, nouveau_plateau, joueur, profondeur - 1,
                                     o.eval_fonction)
                      ELSE AB_MIN_VALUE(e.transpo, nouveau_plateau, joueur,
                                        profondeur - 1,
                                        MeilleurDesScores(e.scores, Len(e.scores)), Inf,
                                        o.eval_fonction) :
                      nouveau_plateau \in {simuler_coup(b, coups[n][1], coups[n][2],
                                                        joueur)}}})
    ELSE Seul({ScoresRacineFenetre(o, g, b, joueur, profondeur, coups,
                                   (n + m) \div 2 + 1, m) :
               g \in {ScoresRacineFenetre(o, e, b, joueur, profondeur, coups,
                                          n, (n + m) \div 2)}})

\* The iterations n..m of the loop over the ordered root moves in
\* choisir_coup (lines 520-522 for niveau "1", lines 534-536 otherwise): the
\* score of each root move after the scores e.scores, and the table left in
\* self.transpo.
RECURSIVE ScoresRacine(_, _, _, _, _, _, _, _)
ScoresRacine(o, e, b, joueur, profondeur, coups, n, m) ==
    IF n > m THEN e
    ELSE IF n = m
    THEN Seul({[scores |-> Append(e.scores, r.v), transpo |-> r.transpo] :
               r \in {IF AlgorithmeRacine(o) = "minimax"
                      THEN MIN_VALUE(e.transpo, nouveau_plateau, joueur, profondeur - 1,
                                     o.eval_fonction)
                      ELSE AB_MIN_VALUE(e.transpo, nouveau_plateau, joueur,
                                        profondeur - 1, -Inf, Inf, o.eval_fonction) :
                      nouveau_plateau \in {simuler_coup(b, coups[n][1], coups[n][2],
                                                        joueur)}}})
    ELSE Seul({ScoresRacine(o, g, b, joueur, profondeur, coups, (n + m) \div 2 + 1, m) :
               g \in {ScoresRacine(o, e, b, joueur, profondeur, coups,
                                   n, (n + m) \div 2)}})

\* random.shuffle(coups_possibles) of line 474, as one of two permutations
Melanges == {"identite", "inverse"}

Melanger(liste, melange) ==
    IF melange = "inverse"
    THEN [n \in 1..Len(liste) |-> liste[Len(liste) + 1 - n]]
    ELSE liste

\* The caller's array after the calls simuler_coup(plateau, coups[n]...), ...,
\* simuler_coup(plateau, coups[m]...) made with it.
RECURSIVE AppelantApres(_, _, _, _, _)
AppelantApres(b, coups, joueur, n, m) ==
    IF n > m THEN b
    ELSE IF n = m THEN EffetSimuler(b, coups[n][1], coups[n][2], joueur).appelant
    ELSE Seul({AppelantApres(g, coups, joueur, (n + m) \div 2 + 1, m) :
               g \in {AppelantApres(b, coups, joueur, n, (n + m) \div 2)}})

\* the values eval_fonction(simuler_coup(plateau, c[0], c[1], joueur), joueur)
\* of the moves n..m of the list (lines 483-489)
RECURSIVE ValeursCoups(_, _, _, _, _, _)
ValeursCoups(eval_fonction, b, joueur, coups, n, m) ==
    IF n > m THEN <<>>
    ELSE IF n = m
    THEN <<AppelEval(eval_fonction,
                     simuler_coup(b, coups[n][1], coups[n][2], joueur), joueur)>>
    ELSE ValeursCoups(eval_fonction, b, joueur, coups, n, (n + m) \div 2)
         \o ValeursCoups(eval_fonction, b, joueur, coups, (n + m) \div 2 + 1, m)

\* max(coups_possibles, key=...) of lines 483-489: the first move of the list
\* whose value no other move exceeds
PremierMax(coups, valeurs) ==
    coups[CHOOSE n \in 1..Len(coups) :
              /\ \A q \in 1..Len(coups) : valeurs[q] <= valeurs[n]
              /\ \A q \in 1..(n - 1) : valeurs[q] < valeurs[n]]

\* Variant of Meilleurs that keeps a move on a greater score only, as if
\* meilleur_score started at a score no move can be below: C13 must tell it
\* from Meilleurs.
RECURSIVE MeilleursStricts(_, _, _, _, _)
MeilleursStricts(e, coups, scores, n, m) ==
    IF n > m THEN e
    ELSE IF n = m
    THEN (IF scores[n] > e.meilleur_score
          THEN [meilleur_score |-> scores[n], meilleurs |-> <<coups[n]>>]
          ELSE e)
    ELSE Seul({MeilleursStricts(g, coups, scores, (n + m) \div 2 + 1, m) :
               g \in {MeilleursStricts(e, coups, scores, n, (n + m) \div 2)}})

\* Variant of Meilleurs that starts the list again on a tie: C14 must tell it
\* from Meilleurs.
RECURSIVE MeilleursDernier(_, _, _, _, _)
MeilleursDernier(e, coups, scores, n, m) ==
    IF n > m THEN e
    ELSE IF n = m
    THEN (IF scores[n] >= e.meilleur_score
          THEN [meilleur_score |-> scores[n], meilleurs |-> <<coups[n]>>]
          ELSE e)
    ELSE Seul({MeilleursDernier(g, coups, scores, (n + m) \div 2 + 1, m) :
               g \in {MeilleursDernier(e, coups, scores, n, (n + m) \div 2)}})

\* the iterations n..m of the root loop on meilleur_score and meilleurs
\* (lines 523-527 and 537-541)
RECURSIVE Meilleurs(_, _, _, _, _)
Meilleurs(e, coups, scores, n, m) ==
    IF n > m THEN e
    ELSE IF n = m
    THEN (IF scores[n] > e.meilleur_score
          THEN [meilleur_score |-> scores[n], meilleurs |-> <<coups[n]>>]
          ELSE IF scores[n] = e.meilleur_score
          THEN [e EXCEPT !.meilleurs = Append(@, coups[n])]
          ELSE e)
    ELSE Seul({Meilleurs(g, coups, scores, (n + m) \div 2 + 1, m) :
               g \in {Meilleurs(e, coups, scores, n, (n + m) \div 2)}})

\* the depth choisir_coup searches at (lines 498-513)
ProfondeurChoisie(o, b) ==
    LET profondeur == IF o.niveau = "4"
                      THEN (IF Cardinality({c \in Cells : b[c] # 0}) > 60 THEN 3
                            ELSE o.profondeur_max)
                      ELSE o.profondeur_max
    IN  IF o.niveau = "1" THEN Min(profondeur, 2)
        ELSE IF o.niveau \in {"2", "3"} THEN Min(profondeur, 3)
        ELSE profondeur

\* the emergency branch of choisir_coup for niveau "4" (lines 479-489)
ChoixUrgence(o, b, joueur, coups_possibles) ==
    Seul({[voie |-> "urgence", retours |-> {PremierMax(coups_possibles, valeurs)},
           coups |-> coups_possibles, scores |-> valeurs, transpo |-> o.transpo,
           appelant |-> a] :
          valeurs \in {ValeursCoups(o.eval_fonction, b, joueur, coups_possibles,
                                    1, Len(coups_possibles))},
          a \in {AppelantApres(b, coups_possibles, joueur, 1, Len(coups_possibles))}})

\* the root search of choisir_coup (lines 498-542) on the ordered moves
\* tries, a being the caller's array after order_moves
ChoixRecherche(o, a, joueur, tries) ==
    Seul({[voie |-> "recherche",
           retours |-> Ensemble(Meilleurs([meilleur_score |-> -Inf, meilleurs |-> <<>>],
                                          tries, r.scores, 1, Len(tries)).meilleurs),
           coups |-> tries, scores |-> r.scores, transpo |-> r.transpo,
           appelant |-> AppelantApres(a, tries, joueur, 1, Len(tries)),
           profondeur |-> profondeur, algorithme |-> AlgorithmeRacine(o),
           eval_fonction |-> o.eval_fonction] :
          profondeur \in {ProfondeurChoisie(o, a)},
          r \in {ScoresRacine(o, [scores |-> <<>>, transpo |-> o.transpo], a, joueur,
                              ProfondeurChoisie(o, a), tries, 1, Len(tries))}})

\* choisir_coup after the shuffle of line 474
ChoixParmi(o, b, joueur, coups_possibles) ==
    IF coups_possibles = <<>>
    THEN [voie |-> "aucun", retours |-> {<<>>}, coups |-> <<>>, scores |-> <<>>,
          transpo |-> o.transpo, appelant |-> b]
    ELSE IF /\ o.niveau = "4"
            /\ \E static_eval \in {AppelEval(o.eval_fonction, b, joueur)} :
                  \/ joueur = 1 /\ static_eval < -50
                  \/ joueur = 2 /\ static_eval > 50
    THEN ChoixUrgence(o, b, joueur, coups_possibles)
    ELSE IF /\ Compter(b, 0) > 70
            /\ \E c \in Ensemble(coups_possibles) : c[2][1] \in 2..6 /\ c[2][2] \in 2..6
    THEN [voie |-> "ouverture",
          retours |-> {c \in Ensemble(coups_possibles) :
                          c[2][1] \in 2..6 /\ c[2][2] \in 2..6},
          coups |-> coups_possibles, scores |-> <<>>, transpo |-> o.transpo,
          appelant |-> b]
    ELSE Seul({ChoixRecherche(o, a, joueur, tries) :
               tries \in {order_moves(coups_possibles, b, joueur)},
               a \in {AppelantApres(b, coups_possibles, joueur,
                                    1, Len(coups_possibles))}})

\* IA.choisir_coup(plateau, joueur, jeu) by the object o, the shuffle of
\* line 474 being melange: the branch taken, the moves the call can return
\* (none stands for None), the root moves with their scores, the table left
\* in self.transpo and the caller's array after the call.
choisir_coup(o, b, joueur, melange) ==
    Seul({ChoixParmi(o, b, joueur, coups_possibles) :
          coups_possibles \in {Melanger(obtenir_tous_coups_possibles(b, joueur),
                                        melange)}})

-----------------------------------------------------------------------------
(* The play loops *)

\* the move cap of jouer_partie (line 575)
max_coups == 200

\* Variant of IterationJouerPartie that names no winner when choisir_coup
\* returns None: C30 must tell it from IterationJouerPartie.
IterationSansVainqueur(j, coup) ==
    IF coup # <<>>
    THEN LET depart  == coup[1]
             arrivee == coup[2]
             j1 == [j EXCEPT !.coups_valides = obtenir_coups_valides(j.plateau, depart)]
             d  == deplacer_pion(j1, depart, arrivee)
             g  == verifier_victoire(d.jeu)
             j2 == [d.jeu EXCEPT !.gagnant = g]
         IN  [jeu |-> IF g # 0 THEN [j2 EXCEPT !.partie_terminee = TRUE]
                      ELSE [j2 EXCEPT !.joueur_actuel = 3 - j.joueur_actuel],
              ret |-> d.ret, victoire |-> g, verifie |-> TRUE]
    ELSE [jeu |-> [j EXCEPT !.partie_terminee = TRUE],
          ret |-> FALSE, victoire |-> 0, verifie |-> FALSE]

\* One iteration of the while loop of IA.jouer_partie (lines 583-602) once
\* choisir_coup has returned coup (<<>> for None): the object after it, the
\* value deplacer_pion returned and the value verifier_victoire returned.
IterationJouerPartie(j, coup) ==
    IF coup # <<>>
    THEN LET depart  == coup[1]
             arrivee == coup[2]
             j1 == [j EXCEPT !.coups_valides = obtenir_coups_valides(j.plateau, depart)]
             d  == deplacer_pion(j1, depart, arrivee)
             g  == verifier_victoire(d.jeu)
             j2 == [d.jeu EXCEPT !.gagnant = g]
         IN  [jeu |-> IF g # 0 THEN [j2 EXCEPT !.partie_terminee = TRUE]
                      ELSE [j2 EXCEPT !.joueur_actuel = 3 - j.joueur_actuel],
              ret |-> d.ret, victoire |-> g, verifie |-> TRUE]
    ELSE [jeu |-> [j EXCEPT !.partie_terminee = TRUE,
                            !.gagnant = 3 - j.joueur_actuel],
          ret |-> FALSE, victoire |-> 0, verifie |-> FALSE]

\* Variant of ClicCase in which a rejected move costs the turn: C35 must
\* tell it from ClicCase.
ClicCaseTourPerdu(j, case) ==
    IF j.pion_selectionne = <<>>
    THEN [jeu |-> IF j.plateau[case] = j.joueur_actuel
                  THEN [j EXCEPT !.pion_selectionne = case,
                                 !.coups_valides = obtenir_coups_valides(j.plateau, case)]
                  ELSE j,
          ret |-> FALSE, victoire |-> 0, verifie |-> FALSE]
    ELSE LET d  == deplacer_pion(j, j.pion_selectionne, case)
             g  == verifier_victoire(d.jeu)
             j2 == IF ~d.ret THEN [d.jeu EXCEPT !.joueur_actuel = 3 - j.joueur_actuel]
                   ELSE IF g # 0
                        THEN [d.jeu EXCEPT !.gagnant = g, !.partie_terminee = TRUE]
                        ELSE [d.jeu EXCEPT !.gagnant = g,
                                           !.joueur_actuel = 3 - j.joueur_actuel]
         IN  [jeu |-> [j2 EXCEPT !.pion_selectionne = <<>>, !.coups_valides = <<>>],
              ret |-> d.ret, victoire |-> IF d.ret THEN g ELSE 0, verifie |-> d.ret]

\* One click on the cell <<i, j>> of the board in HasamiShogi.executer while
\* the game runs and the human is to move (lines 582-607).
ClicCase(j, case) ==
    IF j.pion_selectionne = <<>>
    THEN [jeu |-> IF j.plateau[case] = j.joueur_actuel
                  THEN [j EXCEPT !.pion_selectionne = case,
                                 !.coups_valides = obtenir_coups_valides(j.plateau, case)]
                  ELSE j,
          ret |-> FALSE, victoire |-> 0, verifie |-> FALSE]
    ELSE LET d  == deplacer_pion(j, j.pion_selectionne, case)
             g  == verifier_victoire(d.jeu)
             j2 == IF ~d.ret THEN d.jeu
                   ELSE IF g # 0
                        THEN [d.jeu EXCEPT !.gagnant = g, !.partie_terminee = TRUE]
                        ELSE [d.jeu EXCEPT !.gagnant = g,
                                           !.joueur_actuel = 3 - j.joueur_actuel]
         IN  [jeu |-> [j2 EXCEPT !.pion_selectionne = <<>>, !.coups_valides = <<>>],
              ret |-> d.ret, victoire |-> IF d.ret THEN g ELSE 0, verifie |-> d.ret]

\* One move played through the loop of the game's mode: a click on the piece
\* and a click on the destination in HasamiShogi.executer, one iteration in
\* IA.jouer_partie.
JouerCoup(j, coup) ==
    IF j.mode_jeu = "2_joueurs"
    THEN ClicCase(ClicCase(j, coup[1]).jeu, coup[2])
    ELSE IterationJouerPartie(j, coup)

-----------------------------------------------------------------------------
(* IA: construction *)

\* Variant of NouvelleIA that gives every tier evaluer_position_naive: C26
\* must tell it from NouvelleIA.
IASansAvancee(niveau) ==
    [niveau |-> niveau,
     transpo |-> <<>>,
     profondeur_max |-> CASE niveau = "1" -> 3
                          [] niveau = "2" -> 4
                          [] niveau = "3" -> 4
                          [] niveau = "4" -> 3
                          [] OTHER -> 2,
     utilise_alpha_beta |-> niveau \in {"2", "3", "4"},
     eval_fonction |-> "evaluer_position_naive"]

\* IA.__init__(niveau): the fields (eval_fonction is named, not called)
NouvelleIA(niveau) ==
    [niveau |-> niveau,
     transpo |-> <<>>,
     profondeur_max |-> CASE niveau = "1" -> 3
                          [] niveau = "2" -> 4
                          [] niveau = "3" -> 4
                          [] niveau = "4" -> 3
                          [] OTHER -> 2,
     utilise_alpha_beta |-> niveau \in {"2", "3", "4"},
     eval_fonction |-> IF niveau \in {"3", "4"} THEN "evaluer_position"
                       ELSE "evaluer_position_naive"]

\* the two objects ia1 and ia2 of jouer_partie (lines 571-572)
DeuxIA(niveau_ia1, niveau_ia2) == <<NouvelleIA(niveau_ia1), NouvelleIA(niveau_ia2)>>

-----------------------------------------------------------------------------
(* What a loop iteration leaves for the properties to read *)

\* the record of an iteration: the object before it, the move asked for,
\* the list obtenir_tous_coups_possibles gives for the side to move, the
\* board simuler_coup gives for the move, and what the calls returned
Trace(type, avant, coup, r) ==
    [type |-> type, avant |-> avant, coup |-> coup,
     coups |-> obtenir_tous_coups_possibles(avant.plateau, avant.joueur_actuel),
     sim |-> IF coup # <<>>
             THEN simuler_coup(avant.plateau, coup[1], coup[2], avant.joueur_actuel)
             ELSE avant.plateau,
     ret |-> r.ret, victoire |-> r.victoire, verifie |-> r.verifie]

\* before any iteration
TraceInit(j) ==
    [type |-> "init", avant |-> j, coup |-> <<>>, coups |-> <<>>,
     sim |-> j.plateau, ret |-> FALSE, victoire |-> 0, verifie |-> FALSE]

\* the position a game object is in, and the position after a move of the
\* side that was to move in j: the board and the side to move next
Position(j) == <<j.plateau, j.joueur_actuel>>

PositionApres(j, apres) == <<apres.plateau, 3 - j.joueur_actuel>>

-----------------------------------------------------------------------------
(* Spec: games played from the starting position *)

\* Both sides advance their nine pieces one row at a time, black first, to
\* rows 3 and 5: 54 half-moves, none of which captures or repeats a position.
ScriptAvance ==
    [n \in 1..(6 * taille_plateau) |->
        LET r   == (n - 1) \div (2 * taille_plateau)
            col == ((n - 1) % (2 * taille_plateau)) \div 2
        IN  IF (n - 1) % 2 = 0
            THEN << <<r, col>>, <<r + 1, col>> >>
            ELSE << <<taille_plateau - 1 - r, col>>, <<taille_plateau - 2 - r, col>> >>]

\* Black goes beside the corner <<8, 0>> and white leaves the other cell
\* beside it.
ScriptCoin ==
    << << <<0, 0>>, <<7, 0>> >>, << <<8, 1>>, <<7, 1>> >>,
       << <<0, 8>>, <<1, 8>> >>, << <<7, 1>>, <<7, 5>> >> >>

\* Black brings its nine pieces to row 7, one column after the other, while
\* white moves its piece of <<8, 8>> out and back: 17 half-moves without a
\* capture, after which white is to move and every white piece is shut in.
ScriptBlocus ==
    [n \in 1..(2 * taille_plateau - 1) |->
        IF n % 2 = 1
        THEN << <<0, (n - 1) \div 2>>, <<taille_plateau - 2, (n - 1) \div 2>> >>
        ELSE IF n % 4 = 2
        THEN << <<taille_plateau - 1, taille_plateau - 1>>,
                <<taille_plateau - 2, taille_plateau - 1>> >>
        ELSE << <<taille_plateau - 2, taille_plateau - 1>>,
                <<taille_plateau - 1, taille_plateau - 1>> >>]

ZoneBlocus == {<<8, 8>>, <<7, 8>>, <<6, 8>>}

ZoneRepetition == {<<0, 0>>, <<1, 0>>, <<2, 0>>, <<8, 8>>, <<7, 8>>}

ZoneCoin == {<<0, 1>>, <<1, 1>>, <<8, 1>>, <<8, 2>>, <<7, 2>>}

ZoneAvance == {<<3, 0>>, <<4, 0>>, <<5, 1>>, <<4, 1>>, <<3, 2>>, <<4, 2>>}

\* the half-moves played after the script, at most
MaxTours == 8

\* the games the model starts from: the loop, the moves already played, the
\* cells the next inputs are drawn from, the option capture_multiple_corners
Scenarios ==
    {[mode |-> "ia_vs_ia", script |-> <<>>, zone |-> ZoneRepetition, coins |-> TRUE]}
    \cup {[mode |-> "2_joueurs", script |-> ScriptCoin, zone |-> ZoneCoin, coins |-> c] :
             c \in BOOLEAN}
    \cup {[mode |-> m, script |-> ScriptAvance, zone |-> ZoneAvance, coins |-> TRUE] :
             m \in {"ia_vs_ia", "2_joueurs"}}
    \cup {[mode |-> m, script |-> ScriptBlocus, zone |-> ZoneBlocus, coins |-> TRUE] :
             m \in {"ia_vs_ia", "2_joueurs"}}

Init ==
    \E sc \in Scenarios :
        /\ jeu = [NouveauJeu(sc.mode) EXCEPT !.capture_multiple_corners = sc.coins]
        /\ historique = <<Position(jeu)>>
        /\ nb_coups = 0
        /\ entrees = [zone |-> sc.zone, script |-> sc.script,
                      fin |-> Len(sc.script) + MaxTours, profondeur |-> 0]
        /\ dernier = TraceInit(jeu)
        /\ ia = DeuxIA("1", "2")

\* the next move of the script while it lasts
Scripte == nb_coups < Len(entrees.script)

\* One iteration of the loop of IA.jouer_partie: choisir_coup returns None
\* when the side to move has no move, and a legal move otherwise.
TourJouerPartie ==
    /\ jeu.mode_jeu = "ia_vs_ia"
    /\ dernier.type \notin {"retour", "exit"}
    /\ ~jeu.partie_terminee
    /\ nb_coups < max_coups
    /\ nb_coups < entrees.fin
    /\ LET tous == obtenir_tous_coups_possibles(jeu.plateau, jeu.joueur_actuel)
       IN  \E coup \in (IF Scripte THEN {entrees.script[nb_coups + 1]}
                        ELSE IF tous = <<>> THEN {<<>>}
                        ELSE {c \in Ensemble(tous) :
                                 c[1] \in entrees.zone /\ c[2] \in entrees.zone}) :
              \E r \in {IterationJouerPartie(jeu, coup)} :
                  /\ jeu' = r.jeu
                  /\ dernier' = Trace("coup", jeu, coup, r)
                  /\ historique' = IF r.ret
                                   THEN Append(historique, PositionApres(jeu, r.jeu))
                                   ELSE historique
    /\ nb_coups' = nb_coups + 1
    /\ UNCHANGED <<ia, entrees>>

\* One click on a cell of the board in HasamiShogi.executer, two players.
Clic ==
    /\ jeu.mode_jeu = "2_joueurs"
    /\ ~jeu.partie_terminee
    /\ nb_coups < entrees.fin
    /\ \E case \in (IF Scripte
                    THEN {entrees.script[nb_coups + 1]
                              [IF jeu.pion_selectionne = <<>> THEN 1 ELSE 2]}
                    ELSE entrees.zone) :
          \E r \in {ClicCase(jeu, case)} :
          LET coup == IF jeu.pion_selectionne = <<>> THEN <<>>
                      ELSE <<jeu.pion_selectionne, case>>
          IN  /\ jeu' = r.jeu
              /\ dernier' = Trace("clic", jeu, coup, r)
              /\ historique' = IF r.ret
                               THEN Append(historique, PositionApres(jeu, r.jeu))
                               ELSE historique
              /\ nb_coups' = IF r.ret THEN nb_coups + 1 ELSE nb_coups
    /\ UNCHANGED <<ia, entrees>>

\* A click on the button "recommencer" of HasamiShogi.executer: the object is
\* constructed again with its mode, and with the default options.
Recommencer ==
    /\ jeu.mode_jeu = "2_joueurs"
    /\ jeu' = NouveauJeu(jeu.mode_jeu)
    /\ dernier' = TraceInit(jeu')
    /\ historique' = <<Position(jeu')>>
    /\ nb_coups' = 0
    /\ UNCHANGED <<ia, entrees>>

Next == TourJouerPartie \/ Clic \/ Recommencer

Spec == Init /\ [][Next]_vars

-----------------------------------------------------------------------------
(* SpecRegles: the rules applied once to each board of a family *)

\* pieces that stay where the game started (black on row 0, white on row 8)
FondNoir == {<<0, 0>>, <<0, 5>>, <<0, 7>>}

FondBlanc == {<<8, 0>>, <<8, 5>>, <<8, 7>>}

\* the cells that take every value
CasesLibres == << <<4, 6>>, <<4, 7>>, <<4, 8>>, <<5, 7>>, <<4, 4>>, <<3, 5>> >>

\* how many of them vary
NbLibres == 4

\* the board with the fixed pieces and the values f of the free cells
PlateauFamille(noirs, blancs, cases, f) ==
    [c \in Cells |->
        IF c \in noirs THEN 1
        ELSE IF c \in blancs THEN 2
        ELSE IF \E n \in DOMAIN f : cases[n] = c
             THEN f[CHOOSE n \in DOMAIN f : cases[n] = c]
             ELSE 0]

\* a game object standing on board b with side s to move
JeuSur(b, s) ==
    [NouveauJeu("ia_vs_ia") EXCEPT !.plateau = b, !.joueur_actuel = s,
                                   !.positions_occurrence = (cle_position(b, s) :> 1)]

\* the destinations tried on the boards of the family
ZoneRegles == {c \in Cells : c[1] \in 3..5 /\ c[2] \in 3..8}

InitRegles ==
    /\ \E f \in [1..NbLibres -> 0..2], s \in {1, 2} :
          jeu = JeuSur(PlateauFamille(FondNoir, FondBlanc, CasesLibres, f), s)
    /\ verifier_victoire(jeu) = 0
    /\ ia = DeuxIA("1", "2")
    /\ dernier = TraceInit(jeu)
    /\ nb_coups = 0
    /\ historique = <<Position(jeu)>>
    /\ entrees = [zone |-> ZoneRegles, script |-> <<>>, fin |-> 1, profondeur |-> 0]

\* the loop body of jouer_partie with a move of the list of legal moves
Essai ==
    /\ nb_coups < entrees.fin
    /\ \E coup \in Ensemble(obtenir_tous_coups_possibles(jeu.plateau, jeu.joueur_actuel)) :
          /\ coup[2] \in entrees.zone
          /\ \E r \in {JouerCoup(jeu, coup)} :
                 /\ jeu' = r.jeu
                 /\ dernier' = Trace("coup", jeu, coup, r)
                 /\ historique' = Append(historique, PositionApres(jeu, r.jeu))
    /\ nb_coups' = nb_coups + 1
    /\ UNCHANGED <<ia, entrees>>

NextRegles == Essai

SpecRegles == InitRegles /\ [][NextRegles]_vars

-----------------------------------------------------------------------------
(* SpecRecherche: the root loop of choisir_coup run by a minimax object and
   by an alpha-beta object on the same board *)

FondNoirRecherche == {<<0, 0>>, <<0, 7>>}

FondBlancRecherche == {<<8, 0>>, <<8, 7>>}

CasesRecherche == << <<4, 7>>, <<5, 7>>, <<4, 6>>, <<3, 3>>, <<6, 2>> >>

\* the number of cells of CasesRecherche that vary
NbLibresRecherche == 4

\* the depths searched from the root; beyond depth 1 the boards searched
\* have their varying pieces on CasesProfondes only
Profondeurs == {1, 2}

CasesProfondes == {<<4, 7>>, <<5, 7>>}

InitRecherche ==
    /\ \E f \in [1..NbLibresRecherche -> 0..2], s \in {1, 2}, p \in Profondeurs :
          /\ p > 1 => \A n \in DOMAIN f : CasesRecherche[n] \notin CasesProfondes => f[n] = 0
          /\ jeu = JeuSur(PlateauFamille(FondNoirRecherche, FondBlancRecherche,
                                         CasesRecherche, f), s)
          /\ entrees = [zone |-> {}, script |-> <<>>, fin |-> 1, profondeur |-> p]
    /\ verifier_victoire(jeu) = 0
    /\ ia = DeuxIA("1", "2")
    /\ dernier = TraceInit(jeu)
    /\ nb_coups = 0
    /\ historique = <<Position(jeu)>>

\* The root loop of choisir_coup on the board of the game, by ia[1] (niveau
\* "1", MIN_VALUE) and by ia[2] (niveau "2", AB_MIN_VALUE), both from the
\* same shuffled and ordered list of moves, at depth entrees.profondeur.
Recherche ==
    /\ nb_coups < entrees.fin
    /\ entrees.profondeur >= 1
    /\ \E melange \in Melanges :
          LET b      == jeu.plateau
              joueur == jeu.joueur_actuel
              coups  == order_moves(
                            Melanger(obtenir_tous_coups_possibles(b, joueur), melange),
                            b, joueur)
          IN  /\ coups # <<>>
              /\ \E r1 \in {ScoresRacine(ia[1], [scores |-> <<>>,
                                                 transpo |-> ia[1].transpo],
                                          b, joueur, entrees.profondeur, coups,
                                          1, Len(coups))},
                    r2 \in {ScoresRacine(ia[2], [scores |-> <<>>,
                                                 transpo |-> ia[2].transpo],
                                          b, joueur, entrees.profondeur, coups,
                                          1, Len(coups))} :
                    /\ ia' = <<[ia[1] EXCEPT !.transpo = r1.transpo],
                               [ia[2] EXCEPT !.transpo = r2.transpo]>>
                    /\ dernier' = [type |-> "recherche", avant |-> jeu, coup |-> <<>>,
                                   coups |-> coups, sim |-> b, ret |-> FALSE,
                                   victoire |-> 0, verifie |-> FALSE,
                                   profondeur |-> entrees.profondeur,
                                   minimax |-> r1.scores, alphabeta |-> r2.scores]
    /\ nb_coups' = nb_coups + 1
    /\ UNCHANGED <<jeu, historique, entrees>>

NextRecherche == Recherche

SpecRecherche == InitRecherche /\ [][NextRecherche]_vars

-----------------------------------------------------------------------------
(* SpecChoix: choisir_coup called once on the board of a game, by an object
   of each tier *)

\* the tiers: IA("1") .. IA("4"), and IA("minimax"), the default of
\* HasamiShogi.__init__
Niveaux == {"1", "2", "3", "4", "minimax"}

\* the cells that vary on the open boards: a piece on one of them has a move
\* into rows and columns 2..6
CasesChoix == << <<4, 7>>, <<5, 7>>, <<3, 3>>, <<6, 2>> >>

\* the number of cells of CasesChoix that vary
NbLibresChoix == 3

PlateauDe(noirs, blancs) ==
    [c \in Cells |-> IF c \in noirs THEN 1 ELSE IF c \in blancs THEN 2 ELSE 0]

\* three pieces a side in two corners: no move reaches rows and columns 2..6
PlateauCoins ==
    PlateauDe({<<0, 0>>, <<0, 1>>, <<1, 0>>}, {<<8, 8>>, <<8, 7>>, <<7, 8>>})

\* white holds the centre with five pieces against three
PlateauCentre ==
    PlateauDe({<<0, 0>>, <<0, 1>>, <<1, 0>>},
              {<<3, 3>>, <<3, 5>>, <<5, 3>>, <<5, 5>>, <<4, 4>>})

\* the board ScriptBlocus ends on
PlateauBlocus ==
    [c \in Cells |-> IF c[1] = taille_plateau - 2 THEN 1
                     ELSE IF c[1] = taille_plateau - 1 THEN 2 ELSE 0]

\* eight pieces against three, in a game whose margin threshold the options
\* menu has set to 6; white takes <<7, 0>> by <<6, 5>> to <<6, 0>>
PlateauEcart ==
    PlateauDe({<<0, c>> : c \in 0..6} \cup {<<7, 0>>}, {<<8, 0>>, <<8, 1>>, <<6, 5>>})

\* the games choisir_coup is called in, and the tiers that are called
CasChoix ==
    {[jeu |-> JeuSur(PlateauFamille(FondNoirRecherche, FondBlancRecherche,
                                    CasesChoix, f), s),
      niveaux |-> Niveaux] : f \in [1..NbLibresChoix -> 0..2], s \in {1, 2}}
    \cup {[jeu |-> JeuSur(PlateauCoins, 1), niveaux |-> {"1", "2", "minimax"}]}
    \cup {[jeu |-> JeuSur(PlateauCoins, 2), niveaux |-> {"1", "minimax"}]}
    \cup {[jeu |-> JeuSur(PlateauCentre, 1), niveaux |-> {"1", "4", "minimax"}]}
    \cup {[jeu |-> JeuSur(PlateauCentre, 2), niveaux |-> Niveaux]}
    \cup {[jeu |-> JeuSur(PlateauBlocus, 2), niveaux |-> Niveaux]}
    \cup {[jeu |-> JeuSur(PlateauBlocus, 1), niveaux |-> {"1", "minimax"}]}
    \cup {[jeu |-> [JeuSur(PlateauEcart, 2) EXCEPT !.mode_jeu = "joueur_vs_ia",
                                                   !.seuil_ecart_victoire = 6],
           niveaux |-> Niveaux]}

InitChoix ==
    /\ \E cas \in CasChoix, niveau \in Niveaux :
          /\ niveau \in cas.niveaux
          /\ jeu = cas.jeu
          /\ ia = DeuxIA(niveau, niveau)
    /\ verifier_victoire(jeu) = 0
    /\ entrees = [zone |-> {}, script |-> <<>>, fin |-> 1, profondeur |-> 0]
    /\ dernier = TraceInit(jeu)
    /\ nb_coups = 0
    /\ historique = <<Position(jeu)>>

\* The call ia.choisir_coup(jeu.plateau, joueur, jeu) of the play loops, ia
\* being the object of the side to move.
ChoixCoup ==
    /\ nb_coups < entrees.fin
    /\ \E melange \in Melanges :
          \E r \in {choisir_coup(ia[jeu.joueur_actuel], jeu.plateau,
                                 jeu.joueur_actuel, melange)} :
              /\ ia' = [ia EXCEPT ![jeu.joueur_actuel].transpo = r.transpo]
              /\ jeu' = [jeu EXCEPT !.plateau = r.appelant]
              /\ dernier' = [type |-> "choix", avant |-> jeu, coup |-> <<>>,
                             coups |-> obtenir_tous_coups_possibles(
                                           jeu.plateau, jeu.joueur_actuel),
                             sim |-> jeu.plateau, ret |-> FALSE, victoire |-> 0,
                             verifie |-> FALSE, niveau |-> ia[jeu.joueur_actuel].niveau,
                             choix |-> r]
    /\ nb_coups' = nb_coups + 1
    /\ UNCHANGED <<historique, entrees>>

NextChoix == ChoixCoup

SpecChoix == InitChoix /\ [][NextChoix]_vars

-----------------------------------------------------------------------------
(* Vocabulary of the properties: stated on the boards, not on the scans *)

\* the last iteration applied a move
CoupApplique == dernier.type \in {"coup", "clic"} /\ dernier.ret

\* the side that made the last move, its destination, the board before it
\* and the board once the piece stands on its destination (before captures)
Mouvant == dernier.avant.joueur_actuel

Origine == dernier.coup[1]

Arrivee == dernier.coup[2]

PlateauAvant == dernier.avant.plateau

PlateauPose == [PlateauAvant EXCEPT ![Arrivee] = PlateauAvant[Origine], ![Origine] = 0]

Orthogonales == {<<0, 1>>, <<1, 0>>, <<0, -1>>, <<-1, 0>>}

\* the cell n steps from c in direction d
Pas(c, d, n) == <<c[1] + n * d[1], c[2] + n * d[2]>>

\* the n cells next to c in direction d are on the board and all hold v
Serie(b, c, d, n, v) ==
    \A k \in 1..n : Pas(c, d, k) \in Cells /\ b[Pas(c, d, k)] = v

\* a run of n opposing pieces from the destination closed by a piece of the mover
SerieEncadree(d, n) ==
    /\ Serie(PlateauPose, Arrivee, d, n, 3 - Mouvant)
    /\ Pas(Arrivee, d, n + 1) \in Cells
    /\ PlateauPose[Pas(Arrivee, d, n + 1)] = Mouvant

\* a run of n opposing pieces from the destination that ends at an empty
\* cell or at the edge
SerieOuverte(d, n) ==
    /\ Serie(PlateauPose, Arrivee, d, n, 3 - Mouvant)
    /\ \/ Pas(Arrivee, d, n + 1) \notin Cells
       \/ PlateauPose[Pas(Arrivee, d, n + 1)] = 0

Longueurs == 1..(taille_plateau - 1)

EstCoin(c) == c[1] \in {0, taille_plateau - 1} /\ c[2] \in {0, taille_plateau - 1}

-----------------------------------------------------------------------------
(* C2, C3, C4: the ray scan and the move generator *)

\* C2: after a move lands, on each of the four orthogonal rays from the
\* destination, a contiguous run of one or more opposing pieces immediately
\* followed by a piece of the mover is removed whole, by the game's move
\* (deplacer_pion with verifier_capture) and by the search's simuler_coup.
C2_SerieEncadreeCapturee ==
    CoupApplique =>
        \A d \in Orthogonales, n \in Longueurs :
            SerieEncadree(d, n) =>
                \A k \in 1..n : /\ jeu.plateau[Pas(Arrivee, d, k)] = 0
                                /\ dernier.sim[Pas(Arrivee, d, k)] = 0

\* a move closed a run of two or more pieces and the run is gone
C2_Temoin ==
    /\ CoupApplique
    /\ \E d \in Orthogonales :
          /\ SerieEncadree(d, 2)
          /\ jeu.plateau[Pas(Arrivee, d, 1)] = 0
          /\ jeu.plateau[Pas(Arrivee, d, 2)] = 0

\* C3: a contiguous run of opposing pieces on a ray from the destination that
\* ends at an empty cell or at the board edge loses no piece to the ray scan:
\* every piece of it is still there after simuler_coup, and after the game's
\* move unless it stands on a corner (the corner rule is not a ray scan).
C3_SerieOuverteIntacte ==
    CoupApplique =>
        \A d \in Orthogonales, n \in Longueurs :
            SerieOuverte(d, n) =>
                \A k \in 1..n :
                    /\ dernier.sim[Pas(Arrivee, d, k)] = 3 - Mouvant
                    /\ ~EstCoin(Pas(Arrivee, d, k))
                          => jeu.plateau[Pas(Arrivee, d, k)] = 3 - Mouvant

\* a move landed beside a run that reaches the edge, and beside one that
\* ends at an empty cell
C3_Temoin ==
    /\ CoupApplique
    /\ \E d \in Orthogonales, n \in Longueurs :
          SerieOuverte(d, n) /\ Pas(Arrivee, d, n + 1) \notin Cells
    /\ \E d \in Orthogonales, n \in Longueurs :
          SerieOuverte(d, n) /\ Pas(Arrivee, d, n + 1) \in Cells

\* the cells strictly between two cells of one row or one column
Entre(o, a) ==
    {c \in Cells :
        \/ c[1] = o[1] /\ o[1] = a[1] /\ ((o[2] < c[2] /\ c[2] < a[2]) \/ (a[2] < c[2] /\ c[2] < o[2]))
        \/ c[2] = o[2] /\ o[2] = a[2] /\ ((o[1] < c[1] /\ c[1] < a[1]) \/ (a[1] < c[1] /\ c[1] < o[1]))}

\* the rook moves of a side: from a piece of the side to an empty cell of
\* its row or column with nothing in between
CoupsDeTour(b, joueur) ==
    {m \in Cells \X Cells :
        /\ b[m[1]] = joueur
        /\ m[1] # m[2]
        /\ m[1][1] = m[2][1] \/ m[1][2] = m[2][2]
        /\ b[m[2]] = 0
        /\ \A c \in Entre(m[1], m[2]) : b[c] = 0}

\* C4: the moves obtenir_tous_coups_possibles returns for a board and a side
\* are exactly the pairs (origin, destination) with a piece of the side on
\* the origin, the destination an empty cell of the same row or column and
\* every cell strictly between them empty.
C4_CoupsExacts ==
    dernier.type = "coup" =>
        Ensemble(dernier.coups) = CoupsDeTour(PlateauAvant, Mouvant)

\* the list was computed for a board where some piece is blocked by another
\* piece before the edge and some empty cell lies beyond the blocker
C4_Temoin ==
    /\ dernier.type = "coup"
    /\ \E o \in Cells, a \in Cells :
          /\ PlateauAvant[o] = Mouvant /\ PlateauAvant[a] = 0
          /\ o[1] = a[1] /\ o # a
          /\ \E c \in Entre(o, a) : PlateauAvant[c] # 0
          /\ <<o, a>> \notin Ensemble(dernier.coups)
    /\ Len(dernier.coups) > 8

-----------------------------------------------------------------------------
(* SpecVictoire: the victory test after one move, over piece counts and over
   the thresholds the options menu can set *)

\* the values the options menu gives the two thresholds (interface.py,
\* lines 295-298: (valeur % 4) + 1 and (valeur % 5) + 2)
SeuilsDefaite == 1..4

SeuilsEcart == 2..6

\* the pieces still on their starting row, the one of column 4 first
RangNoir == << <<0, 4>>, <<0, 0>>, <<0, 1>>, <<0, 2>>, <<0, 3>>, <<0, 5>>, <<0, 6>> >>

RangBlanc == << <<8, 4>>, <<8, 0>>, <<8, 1>>, <<8, 2>>, <<8, 3>>, <<8, 5>>, <<8, 6>> >>

\* at most this many pieces of a side are still on its starting row
MaxRang == 4

\* two pieces of side s on row 3 with two cells between them and the
\* landing cell <<3, 4>>; the two cells take the values f
PlateauVictoire(a, b, s, f) ==
    [c \in Cells |->
        IF \E n \in 1..a : RangNoir[n] = c THEN 1
        ELSE IF \E n \in 1..b : RangBlanc[n] = c THEN 2
        ELSE IF c \in {<<3, 2>>, <<3, 6>>} THEN s
        ELSE IF c = <<3, 3>> THEN f[1]
        ELSE IF c = <<3, 5>> THEN f[2]
        ELSE 0]

ZoneVictoire == {<<3, 4>>, <<2, 4>>}

InitVictoire ==
    /\ \E a \in 1..MaxRang, b \in 1..MaxRang, s \in {1, 2}, f \in [1..2 -> 0..2],
          sd \in SeuilsDefaite, se \in SeuilsEcart :
          jeu = [JeuSur(PlateauVictoire(a, b, s, f), s) EXCEPT
                    !.mode_jeu = "2_joueurs",
                    !.seuil_defaite = sd, !.seuil_ecart_victoire = se]
    /\ verifier_victoire(jeu) = 0
    /\ ia = DeuxIA("1", "2")
    /\ dernier = TraceInit(jeu)
    /\ nb_coups = 0
    /\ historique = <<Position(jeu)>>
    /\ entrees = [zone |-> ZoneVictoire, script |-> <<>>, fin |-> 1, profondeur |-> 0]

SpecVictoire == InitVictoire /\ [][NextRegles]_vars

\* the piece counts of the board the victory test read
Noirs == Compter(jeu.plateau, 1)

Blancs == Compter(jeu.plateau, 2)

Ecart == IF Noirs >= Blancs THEN Noirs - Blancs ELSE Blancs - Noirs

-----------------------------------------------------------------------------
(* C5, C6: the two draws, in games played through the loops *)

\* the position the game is in and the number of times it has occurred,
\* the initial position included
DernierePosition == historique[Len(historique)]

NbOccurrences == Cardinality({i \in 1..Len(historique) : historique[i] = DernierePosition})

\* the pieces on a board
NbPions(b) == Cardinality({c \in Cells : b[c] # 0})

\* the half-moves applied since the last capture (or since the start): the
\* number of pieces never grows, so these are the moves made from a position
\* that has as many pieces as the last one
SansCapture ==
    Cardinality({i \in 2..Len(historique) :
                    NbPions(historique[i - 1][1]) = NbPions(DernierePosition[1])})

\* C5: the move that makes a position (board and side to move) occur for the
\* third time, the initial position counting as its first occurrence, ends
\* the game as a draw; a move that makes a position occur for the second
\* time only does not end the game by repetition (if the game ends on it,
\* the 60 half-move limit or the victory test ended it).
C5_TroisiemeOccurrence ==
    CoupApplique =>
        /\ NbOccurrences >= 3 => jeu.partie_terminee /\ jeu.gagnant = 0
        /\ NbOccurrences = 2 /\ jeu.partie_terminee
              => SansCapture >= 60 \/ dernier.victoire # 0

\* a move brought the initial position back for the third time, before the
\* 60 half-move limit, and the game is drawn
C5_Temoin ==
    /\ CoupApplique
    /\ NbOccurrences = 3
    /\ DernierePosition = historique[1]
    /\ SansCapture < 60
    /\ jeu.partie_terminee /\ jeu.gagnant = 0

-----------------------------------------------------------------------------
(* C9, C10: the corner rule *)

CoinsPlateau == {c \in Cells : EstCoin(c)}

\* the cells beside a cell, in its row and in its column
Voisines(c) ==
    {v \in Cells : \/ v[1] = c[1] /\ v[2] - c[2] \in {-1, 1}
                   \/ v[2] = c[2] /\ v[1] - c[1] \in {-1, 1}}

\* the last move took the piece of the corner c
CoinPrisAuCoup(c) == PlateauPose[c] = 3 - Mouvant /\ jeu.plateau[c] = 0

\* once the piece has landed, the corner c holds an opposing piece and both
\* cells beside it hold pieces of the mover
CoinEncadre(c) ==
    /\ PlateauPose[c] = 3 - Mouvant
    /\ \A v \in Voisines(c) : PlateauPose[v] = Mouvant

\* C9: with the option capture_multiple_corners on, a move captures a corner
\* cell if and only if the cell holds an opposing piece and both of its
\* orthogonal neighbours hold pieces of the mover, and a move captures at
\* most one corner cell.
C9_CoinCapture ==
    CoupApplique /\ dernier.avant.capture_multiple_corners =>
        /\ \A c \in CoinsPlateau : CoinPrisAuCoup(c) <=> CoinEncadre(c)
        /\ Cardinality({c \in CoinsPlateau : CoinPrisAuCoup(c)}) <= 1

\* with the option on, a move completed the pair beside an opposing corner
\* piece, and the piece is gone
C9_Temoin ==
    /\ CoupApplique
    /\ dernier.avant.capture_multiple_corners
    /\ \E c \in CoinsPlateau : CoinEncadre(c) /\ CoinPrisAuCoup(c)

\* the last move removed the piece of cell c and c is in no run of opposing
\* pieces closed by a piece of the mover, on a row, a column or a diagonal
\* from the destination
PrisHorsSerie(c) ==
    /\ PlateauPose[c] # 0
    /\ jeu.plateau[c] = 0
    /\ c # Origine
    /\ ~\E d \in (Orthogonales \cup {<<1, 1>>, <<1, -1>>, <<-1, 1>>, <<-1, -1>>}),
          n \in Longueurs, k \in Longueurs :
            k <= n /\ SerieEncadree(d, n) /\ c = Pas(Arrivee, d, k)

\* C10: with the option capture_multiple_corners off, no move removes a
\* piece other than those the ray scans capture, even when an opposing
\* corner piece has both orthogonal neighbours owned by the mover.
C10_CoinSansOption ==
    CoupApplique /\ ~dernier.avant.capture_multiple_corners =>
        \A c \in Cells : ~PrisHorsSerie(c)

-----------------------------------------------------------------------------
(* C1: minimax and alpha-beta at the root *)

\* C1: for every board, side and depth, with the same evaluator, the same
\* move lists and an empty cache at the start, the score MIN_VALUE gives each
\* root move equals the score AB_MIN_VALUE, started with the window
\* (-inf, +inf), gives that root move.
C1_MemeScoreRacine ==
    dernier.type = "recherche" =>
        \A n \in 1..Len(dernier.coups) : dernier.minimax[n] = dernier.alphabeta[n]

-----------------------------------------------------------------------------
(* C11: a side without a legal move *)

\* C11: in every play loop, when the side to move has no legal move on its
\* turn, the step of the loop ends the game at once with the other side as
\* winner.
C11_SansCoupForfait ==
    dernier.type \in {"coup", "clic"} /\ dernier.coups = <<>> =>
        /\ jeu.partie_terminee
        /\ jeu.gagnant = 3 - dernier.avant.joueur_actuel


-----------------------------------------------------------------------------
(* Claims on choisir_coup (SpecChoix) *)

\* C12: simuler_coup and choisir_coup (with the search and the move ordering
\* it runs) leave the caller's board as it was: after the call the array of
\* the game holds the values it held before, and so it does after
\* simuler_coup alone for each legal move.
C12_PlateauAppelantIntact ==
    dernier.type = "choix" =>
        /\ dernier.choix.appelant = dernier.avant.plateau
        /\ jeu.plateau = dernier.avant.plateau
        /\ \A n \in 1..Len(dernier.coups) :
              EffetSimuler(dernier.avant.plateau, dernier.coups[n][1],
                           dernier.coups[n][2], dernier.avant.joueur_actuel).appelant
                  = dernier.avant.plateau

\* a search ran from the root, and one of its root simulations wrote a
\* destination, an origin and a captured cell
C12_Temoin ==
    /\ dernier.type = "choix"
    /\ dernier.choix.voie = "recherche"
    /\ \E n \in 1..Len(dernier.coups) :
          count_captured(dernier.avant.plateau,
                         EffetSimuler(dernier.avant.plateau, dernier.coups[n][1],
                                      dernier.coups[n][2],
                                      dernier.avant.joueur_actuel).nouveau) > 0

\* C13: choisir_coup returns no move exactly when the side to move has no
\* legal move; otherwise, whatever the tier and the board (the boards where
\* every root move scores -inf included), every move it can return is one of
\* the legal moves of the side, and it can return one.
C13_CoupLegalOuAucun ==
    dernier.type = "choix" =>
        LET legaux == CoupsDeTour(dernier.avant.plateau, dernier.avant.joueur_actuel)
        IN  /\ dernier.choix.retours = {<<>>} <=> legaux = {}
            /\ legaux # {} => /\ dernier.choix.retours # {}
                              /\ dernier.choix.retours \subseteq legaux

\* every root move of a search scored -inf, and the call returned a move
C13_Temoin ==
    /\ dernier.type = "choix"
    /\ dernier.choix.voie = "recherche"
    /\ dernier.choix.scores # <<>>
    /\ \A n \in 1..Len(dernier.choix.scores) : dernier.choix.scores[n] = -Inf
    /\ dernier.choix.retours # {}

\* the side to move had no legal move and the call returned no move
C13_TemoinAucun ==
    /\ dernier.type = "choix"
    /\ dernier.choix.voie = "aucun"
    /\ dernier.choix.retours = {<<>>}

\* the greatest of the root scores of the call
ScoreMaximal ==
    CHOOSE v \in Ensemble(dernier.choix.scores) :
        \A w \in Ensemble(dernier.choix.scores) : w <= v

\* C14: when neither the emergency branch of tier 4 nor the opening shortcut
\* applies, the moves choisir_coup can return are exactly the root moves whose
\* score equals the greatest root score.
C14_CandidatsDuMaximum ==
    dernier.type = "choix" /\ dernier.choix.voie = "recherche" =>
        dernier.choix.retours =
            {dernier.choix.coups[n] : n \in {q \in 1..Len(dernier.choix.coups) :
                                                dernier.choix.scores[q] = ScoreMaximal}}

\* a search in which several root moves, and not all of them, tie for the
\* greatest score
C14_Temoin ==
    /\ dernier.type = "choix"
    /\ dernier.choix.voie = "recherche"
    /\ Cardinality(dernier.choix.retours) >= 2
    /\ \E n \in 1..Len(dernier.choix.scores) : dernier.choix.scores[n] < ScoreMaximal
-----------------------------------------------------------------------------
(* SpecCle: cle_position called on two positions *)

\* the number of cells of CasesLibres that vary on the boards keyed
NbLibresCle == 3

InitCle ==
    /\ \E f \in [1..NbLibresCle -> 0..2], s \in {1, 2} :
          jeu = JeuSur(PlateauFamille(FondNoir, FondBlanc, CasesLibres, f), s)
    /\ entrees = [zone |-> {}, script |-> <<>>, fin |-> 1, profondeur |-> 0]
    /\ ia = DeuxIA("1", "2")
    /\ dernier = TraceInit(jeu)
    /\ nb_coups = 0
    /\ historique = <<Position(jeu)>>

\* cle_position() on the game object, and cle_position(joueur) on a second
\* game object standing on another board of the family
Cle ==
    /\ nb_coups < entrees.fin
    /\ \E f \in [1..NbLibresCle -> 0..2], joueur \in {1, 2} :
          LET autre == JeuSur(PlateauFamille(FondNoir, FondBlanc, CasesLibres, f), joueur)
          IN  dernier' = [type |-> "cle", avant |-> jeu, coup |-> <<>>, coups |-> <<>>,
                          sim |-> autre.plateau, ret |-> FALSE, victoire |-> 0,
                          verifie |-> FALSE, joueur |-> joueur,
                          cle1 |-> cle_position(jeu.plateau, jeu.joueur_actuel),
                          cle2 |-> cle_position(autre.plateau, joueur)]
    /\ nb_coups' = nb_coups + 1
    /\ UNCHANGED <<jeu, ia, historique, entrees>>

NextCle == Cle

SpecCle == InitCle /\ [][NextCle]_vars

-----------------------------------------------------------------------------
(* Claims on cle_position (SpecCle) *)

\* C15: cle_position is injective: the keys of two positions are equal only
\* if the two boards hold the same value in each of the 81 cells and the side
\* to move is the same.
C15_CleInjective ==
    (dernier.type = "cle" /\ dernier.cle1 = dernier.cle2)
        => /\ \A c \in Cells : dernier.avant.plateau[c] = dernier.sim[c]
           /\ dernier.avant.joueur_actuel = dernier.joueur

\* the same board keyed for the two sides: the keys differ
C15_Temoin ==
    /\ dernier.type = "cle"
    /\ dernier.sim = dernier.avant.plateau
    /\ dernier.joueur # dernier.avant.joueur_actuel
    /\ dernier.cle1 # dernier.cle2

-----------------------------------------------------------------------------
(* SpecCache: MIN_VALUE, MAX_VALUE, AB_MIN_VALUE and AB_MAX_VALUE called on
   the objects of a game, each call on the table the calls before it left *)

\* the number of cells of CasesRecherche that vary on the boards searched
NbLibresCache == 1

\* the calls made on one pair of objects
NbAppels == 2

Noeuds == {"MIN", "MAX"}

ProfondeursCache == {0, 1}

\* the side that moves at a node: MIN_VALUE and AB_MIN_VALUE list the moves of
\* 3 - joueur, MAX_VALUE and AB_MAX_VALUE the moves of joueur
Trait(noeud, joueur) == IF noeud = "MIN" THEN 3 - joueur ELSE joueur

\* self.MIN_VALUE(...), self.MAX_VALUE(...) on an object without alpha-beta,
\* self.AB_MIN_VALUE(...), self.AB_MAX_VALUE(...) with the full window on the
\* others
AppelNoeud(o, noeud, b, joueur, profondeur) ==
    IF ~o.utilise_alpha_beta
    THEN IF noeud = "MIN"
         THEN MIN_VALUE(o.transpo, b, joueur, profondeur, o.eval_fonction)
         ELSE MAX_VALUE(o.transpo, b, joueur, profondeur, o.eval_fonction)
    ELSE IF noeud = "MIN"
         THEN AB_MIN_VALUE(o.transpo, b, joueur, profondeur, -Inf, Inf, o.eval_fonction)
         ELSE AB_MAX_VALUE(o.transpo, b, joueur, profondeur, -Inf, Inf, o.eval_fonction)

\* the boards the calls are made on: the board of the game and the board
\* after the first move of the side to move
PlateauxCache(j) ==
    LET coups == obtenir_tous_coups_possibles(j.plateau, j.joueur_actuel)
    IN  {j.plateau} \cup
        (IF coups = <<>> THEN {}
         ELSE {simuler_coup(j.plateau, coups[1][1], coups[1][2], j.joueur_actuel)})

InitCache ==
    /\ \E f \in [1..NbLibresCache -> 0..2] :
          jeu = JeuSur(PlateauFamille(FondNoirRecherche, FondBlancRecherche,
                                      CasesRecherche, f), 1)
    /\ entrees = [zone |-> {}, script |-> <<>>, fin |-> NbAppels, profondeur |-> 1]
    /\ ia = DeuxIA("1", "2")
    /\ dernier = TraceInit(jeu)
    /\ nb_coups = 0
    /\ historique = <<>>

\* One call of a search procedure on ia[k]. historique keeps the calls made,
\* each with the key it looked up and whether it found it.
Appel ==
    /\ nb_coups < entrees.fin
    /\ \E k \in {1, 2}, noeud \in Noeuds, joueur \in {1, 2},
          profondeur \in ProfondeursCache, b \in PlateauxCache(jeu) :
          \E r \in {AppelNoeud(ia[k], noeud, b, joueur, profondeur)} :
             /\ ia' = [ia EXCEPT ![k].transpo = r.transpo]
             /\ dernier' = [type |-> "appel", avant |-> jeu, coup |-> <<>>,
                            coups |-> <<>>, sim |-> b, ret |-> FALSE,
                            victoire |-> 0, verifie |-> FALSE,
                            objet |-> k, noeud |-> noeud, joueur |-> joueur,
                            profondeur |-> profondeur,
                            connu |-> <<b, profondeur>> \in DOMAIN ia[k].transpo,
                            ecrit |-> /\ <<b, profondeur>> \notin DOMAIN ia[k].transpo
                                      /\ <<b, profondeur>> \in DOMAIN r.transpo,
                            valeur |-> r.v]
             /\ historique' = Append(historique, dernier')
    /\ nb_coups' = nb_coups + 1
    /\ UNCHANGED <<jeu, entrees>>

NextCache == Appel

SpecCache == InitCache /\ [][NextCache]_vars

-----------------------------------------------------------------------------
(* Claims on the transposition table (SpecCache) *)

\* the calls before the last one that wrote the entry the last call found
Auteurs ==
    {n \in 1..(Len(historique) - 1) :
        /\ historique[n].ecrit
        /\ historique[n].objet = dernier.objet
        /\ historique[n].sim = dernier.sim
        /\ historique[n].profondeur = dernier.profondeur}

\* C16: a value found in the transposition table was written by a call on the
\* same board, with the same side to move at the node and the same remaining
\* depth.
C16_EntreeDuMemeTrait ==
    (dernier.type = "appel" /\ dernier.connu)
        => \A n \in Auteurs :
              Trait(historique[n].noeud, historique[n].joueur)
                  = Trait(dernier.noeud, dernier.joueur)

-----------------------------------------------------------------------------
(* SpecTournoi: jouer_match of selfplay_tournoi.py, from the starting
   position *)

\* the move cap of jouer_match (line 60)
max_coups_match == 400

\* One iteration of the while loop of jouer_match (lines 65-94) once
\* choisir_coup has returned coup (<<>> for None). locaux holds the local
\* variables depart and arrivee as the iteration before left them (<<>> when
\* they are not bound yet). The body of lines 80-91 is that of jouer_partie;
\* line 94 then calls deplacer_pion(depart, arrivee) once more. milieu is the
\* object as line 91 leaves it, jeu the object after line 94.
IterationJouerMatch(j, coup, locaux) ==
    Seul({IF lies = <<>>
          THEN [jeu |-> r.jeu, milieu |-> r.jeu, ret |-> r.ret, victoire |-> r.victoire,
                verifie |-> r.verifie, locaux |-> lies, prise |-> FALSE, leve |-> TRUE]
          ELSE Seul({[jeu |-> d.jeu, milieu |-> r.jeu, ret |-> r.ret,
                      victoire |-> r.victoire, verifie |-> r.verifie, locaux |-> lies,
                      prise |-> d.ret, leve |-> FALSE] :
                     d \in {deplacer_pion(r.jeu, lies[1], lies[2])}}) :
          r \in {IterationJouerPartie(j, coup)},
          lies \in {IF coup # <<>> THEN coup ELSE locaux}})

\* Both sides advance the pieces of columns 0..6 by one row, black first: 14
\* half-moves.
ScriptUsure ==
    [n \in 1..14 |->
        IF n % 2 = 1
        THEN << <<0, (n - 1) \div 2>>, <<1, (n - 1) \div 2>> >>
        ELSE << <<taille_plateau - 1, (n - 1) \div 2>>,
                <<taille_plateau - 2, (n - 1) \div 2>> >>]

\* the destinations of the moves drawn when no script is played
ZoneTournoi == {c \in Cells : c[1] \in 3..5 /\ c[2] \in 2..6}

\* the iterations played without a script, at most
MaxToursTournoi == 2

ScenariosTournoi ==
    {[script |-> <<>>, zone |-> ZoneTournoi, fin |-> MaxToursTournoi],
     [script |-> ScriptUsure, zone |-> {}, fin |-> Len(ScriptUsure)]}

\* jouer_match(make_ia(n1), make_ia(n2), noir_commence=True), lines 55-63
InitTournoi ==
    \E sc \in ScenariosTournoi :
        /\ jeu = NouveauJeu("ia_vs_ia")
        /\ historique = <<Position(jeu)>>
        /\ nb_coups = 0
        /\ entrees = [zone |-> sc.zone, script |-> sc.script, fin |-> sc.fin,
                      profondeur |-> 0]
        /\ dernier = [type |-> "init", avant |-> jeu, coup |-> <<>>, coups |-> <<>>,
                      sim |-> jeu.plateau, ret |-> FALSE, victoire |-> 0,
                      verifie |-> FALSE, milieu |-> jeu, locaux |-> <<>>,
                      prise |-> FALSE, leve |-> FALSE]
        /\ ia = DeuxIA("1", "2")

\* One iteration of the loop of jouer_match: choisir_coup returns None when
\* the side to move has no move, and a legal move otherwise.
TourJouerMatch ==
    /\ dernier.type # "fin"
    /\ ~dernier.leve
    /\ ~jeu.partie_terminee
    /\ nb_coups < max_coups_match
    /\ nb_coups < entrees.fin
    /\ \E tous \in {obtenir_tous_coups_possibles(jeu.plateau, jeu.joueur_actuel)} :
          \E coup \in (IF Scripte THEN {entrees.script[nb_coups + 1]}
                       ELSE IF tous = <<>> THEN {<<>>}
                       ELSE {c \in Ensemble(tous) : c[2] \in entrees.zone}) :
             \E r \in {IterationJouerMatch(jeu, coup, dernier.locaux)} :
                 /\ jeu' = r.jeu
                 /\ dernier' = [type |-> "match", avant |-> jeu, coup |-> coup,
                                coups |-> tous, sim |-> r.milieu.plateau,
                                ret |-> r.ret, victoire |-> r.victoire,
                                verifie |-> r.verifie, milieu |-> r.milieu,
                                locaux |-> r.locaux, prise |-> r.prise,
                                leve |-> r.leve]
                 /\ historique' = Append(historique, Position(r.jeu))
    /\ nb_coups' = nb_coups + 1
    /\ UNCHANGED <<ia, entrees>>

\* The lines after the loop (95-111): compteur_sterile is 0 or 1 there, and
\* jeu.memo_positions is an attribute no code of the repository creates, so
\* line 107 raises.
FinJouerMatch ==
    /\ dernier.type = "match"
    /\ ~dernier.leve
    /\ jeu.partie_terminee \/ nb_coups >= max_coups_match
    /\ dernier' = [dernier EXCEPT !.type = "fin", !.avant = jeu, !.milieu = jeu,
                                  !.leve = TRUE]
    /\ UNCHANGED <<jeu, ia, nb_coups, historique, entrees>>

NextTournoi == TourJouerMatch \/ FinJouerMatch

SpecTournoi == InitTournoi /\ [][NextTournoi]_vars

-----------------------------------------------------------------------------
(* Claims on jouer_match (SpecTournoi) *)

\* the call of line 94 asks for a move that is not a move of the game: the
\* destination is no legal destination of the origin on the board, or the
\* origin holds no piece of the side to move
AppelIllegal ==
    /\ dernier.type = "match"
    /\ dernier.locaux # <<>>
    /\ \/ ~Dans(dernier.locaux[2],
                obtenir_coups_valides(dernier.milieu.plateau, dernier.locaux[1]))
       \/ dernier.milieu.plateau[dernier.locaux[1]] # dernier.milieu.joueur_actuel

\* C17: a call of deplacer_pion whose destination is not a legal destination
\* of the origin piece on the current board, or whose origin holds no piece of
\* the side to move, returns False and leaves the board, the side to move, the
\* half-move counter, the repetition table, the terminal flag and the winner
\* unchanged.
C17_CoupIllegalRefuse ==
    AppelIllegal
        => /\ ~dernier.prise
           /\ jeu.plateau = dernier.milieu.plateau
           /\ jeu.joueur_actuel = dernier.milieu.joueur_actuel
           /\ jeu.derniere_capture = dernier.milieu.derniere_capture
           /\ jeu.positions_occurrence = dernier.milieu.positions_occurrence
           /\ jeu.partie_terminee = dernier.milieu.partie_terminee
           /\ jeu.gagnant = dernier.milieu.gagnant

\* C18: once partie_terminee is true, no later step of the loop changes the
\* board, the winner, the half-move counter or the repetition table.
C18_TermineFige ==
    (dernier.type = "match" /\ dernier.milieu.partie_terminee)
        => /\ jeu.plateau = dernier.milieu.plateau
           /\ jeu.gagnant = dernier.milieu.gagnant
           /\ jeu.derniere_capture = dernier.milieu.derniere_capture
           /\ jeu.positions_occurrence = dernier.milieu.positions_occurrence

-----------------------------------------------------------------------------
(* SpecCoup: one move played on the starting position or on a board of the
   family, by the click handler or by an iteration of jouer_partie *)

\* the number of cells of CasesLibres that vary on the boards played on
NbLibresCoup == 3

InitCoup ==
    /\ \/ \E f \in [1..NbLibresCoup -> 0..2], s \in {1, 2} :
             jeu = JeuSur(PlateauFamille(FondNoir, FondBlanc, CasesLibres, f), s)
       \/ \E mode \in {"ia_vs_ia", "2_joueurs"} : jeu = NouveauJeu(mode)
    /\ verifier_victoire(jeu) = 0
    /\ ia = DeuxIA("1", "2")
    /\ dernier = TraceInit(jeu)
    /\ nb_coups = 0
    /\ historique = <<Position(jeu)>>
    /\ entrees = [zone |-> ZoneRegles, script |-> <<>>, fin |-> 1, profondeur |-> 0]

NextCoup == Essai

SpecCoup == InitCoup /\ [][NextCoup]_vars

-----------------------------------------------------------------------------
(* Claims on the effect of a move (SpecCoup) *)

\* from board avant to board apres, the move coup of side joueur changed the
\* origin (now empty), the destination (now the mover's) and cells that held
\* a piece of the other side and are empty now, and no other cell
CadreDuCoup(avant, apres, coup, joueur) ==
    /\ avant[coup[1]] = joueur /\ apres[coup[1]] = 0
    /\ avant[coup[2]] = 0 /\ apres[coup[2]] = joueur
    /\ \A c \in Cells \ {coup[1], coup[2]} :
          apres[c] # avant[c] => (avant[c] = 3 - joueur /\ apres[c] = 0)

\* the board with the piece of origin coup[1] put on coup[2] and nothing else
\* changed
SansPrise(avant, coup) ==
    [c \in Cells |-> IF c = coup[1] THEN 0
                     ELSE IF c = coup[2] THEN avant[coup[1]]
                     ELSE avant[c]]

CoupDepart == << <<0, 4>>, <<4, 4>> >>

\* C19: a legal move, applied by deplacer_pion or by simuler_coup, changes
\* the origin (empty after it), the destination (the mover's after it) and
\* the captured cells (empty after it) and no other cell; from the starting
\* board the move (0,4) -> (4,4) leaves (0,4) empty, (4,4) to the mover and
\* captures nothing.
C19_CadreDuCoup ==
    (dernier.type = "coup" /\ dernier.ret)
        => /\ CadreDuCoup(dernier.avant.plateau, jeu.plateau, dernier.coup,
                          dernier.avant.joueur_actuel)
           /\ CadreDuCoup(dernier.avant.plateau, dernier.sim, dernier.coup,
                          dernier.avant.joueur_actuel)
           /\ (dernier.avant.plateau = initialiser_plateau /\ dernier.coup = CoupDepart)
                 => /\ jeu.plateau = SansPrise(initialiser_plateau, CoupDepart)
                    /\ dernier.sim = SansPrise(initialiser_plateau, CoupDepart)
                    /\ jeu.plateau[<<0, 4>>] = 0
                    /\ jeu.plateau[<<4, 4>>] = dernier.avant.joueur_actuel
                    /\ ~jeu.capture_effectuee

\* a move that captured: more cells changed than the origin and the
\* destination
C19_Temoin ==
    /\ dernier.type = "coup"
    /\ dernier.ret
    /\ jeu.capture_effectuee
    /\ jeu.plateau # SansPrise(dernier.avant.plateau, dernier.coup)
    /\ dernier.sim # SansPrise(dernier.avant.plateau, dernier.coup)

\* the move (0,4) -> (4,4) played from the starting board
C19_TemoinDepart ==
    /\ dernier.type = "coup"
    /\ dernier.ret
    /\ dernier.avant.plateau = initialiser_plateau
    /\ dernier.coup = CoupDepart

-----------------------------------------------------------------------------
(* SpecValides: obtenir_coups_valides called on a cell of the board of a
   game *)

\* the number of cells of CasesLibres that vary on the boards asked about
NbLibresValides == 2

InitValides ==
    /\ \/ \E f \in [1..NbLibresValides -> 0..2], s \in {1, 2} :
             jeu = JeuSur(PlateauFamille(FondNoir, FondBlanc, CasesLibres, f), s)
       \/ \E mode \in {"ia_vs_ia", "2_joueurs"} : jeu = NouveauJeu(mode)
    /\ ia = DeuxIA("1", "2")
    /\ dernier = TraceInit(jeu)
    /\ nb_coups = 0
    /\ historique = <<Position(jeu)>>
    /\ entrees = [zone |-> Cells, script |-> <<>>, fin |-> 1, profondeur |-> 0]

\* jeu.obtenir_coups_valides(position) for a cell of the board
CoupsValides ==
    /\ nb_coups < entrees.fin
    /\ \E position \in entrees.zone :
          dernier' = [type |-> "valides", avant |-> jeu, coup |-> <<position>>,
                      coups |-> obtenir_coups_valides(jeu.plateau, position),
                      sim |-> jeu.plateau, ret |-> FALSE, victoire |-> 0,
                      verifie |-> FALSE]
    /\ nb_coups' = nb_coups + 1
    /\ UNCHANGED <<jeu, ia, historique, entrees>>

NextValides == CoupsValides

SpecValides == InitValides /\ [][NextValides]_vars

-----------------------------------------------------------------------------
(* Claims on obtenir_coups_valides (SpecValides) *)

\* C20: obtenir_coups_valides returns the empty list for a cell that is empty
\* or holds a piece of the side that is not to move.
C20_CaseSansPionDuTrait ==
    (/\ dernier.type = "valides"
     /\ jeu.plateau[dernier.coup[1]] # jeu.joueur_actuel)
        => dernier.coups = <<>>

-----------------------------------------------------------------------------
(* SpecGenerateurs: the move list of the search engine and the per-piece
   lists of the game, on the same board and for the same side *)

\* the number of cells of CasesLibres that vary on the boards listed
NbLibresGenerateurs == 4

\* "for j in range(9)" on row i from column j on: the moves
\* jeu.obtenir_coups_valides((i, j)) gives for each cell of the side
RECURSIVE ValidesDepuisColonne(_, _, _, _)
ValidesDepuisColonne(b, joueur, i, j) ==
    IF j >= taille_plateau THEN <<>>
    ELSE (IF b[<<i, j>>] = joueur
          THEN Depuis(<<i, j>>, obtenir_coups_valides(b, <<i, j>>))
          ELSE <<>>)
         \o ValidesDepuisColonne(b, joueur, i, j + 1)

RECURSIVE ValidesDepuisLigne(_, _, _)
ValidesDepuisLigne(b, joueur, i) ==
    IF i >= taille_plateau THEN <<>>
    ELSE ValidesDepuisColonne(b, joueur, i, 0) \o ValidesDepuisLigne(b, joueur, i + 1)

InitGenerateurs ==
    /\ \/ \E f \in [1..NbLibresGenerateurs -> 0..2], s \in {1, 2} :
             jeu = JeuSur(PlateauFamille(FondNoir, FondBlanc, CasesLibres, f), s)
       \/ \E s \in {1, 2} : jeu = [NouveauJeu("ia_vs_ia") EXCEPT !.joueur_actuel = s]
    /\ ia = DeuxIA("1", "2")
    /\ dernier = TraceInit(jeu)
    /\ nb_coups = 0
    /\ historique = <<Position(jeu)>>
    /\ entrees = [zone |-> Cells, script |-> <<>>, fin |-> 1, profondeur |-> 0]

\* ia.obtenir_tous_coups_possibles(jeu.plateau, joueur) and
\* jeu.obtenir_coups_valides(cell) for every cell of joueur, for either side
Generer ==
    /\ nb_coups < entrees.fin
    /\ \E joueur \in {1, 2} :
          dernier' = [type |-> "generer", avant |-> jeu, coup |-> <<>>,
                      coups |-> obtenir_tous_coups_possibles(jeu.plateau, joueur),
                      sim |-> jeu.plateau, ret |-> FALSE, victoire |-> 0,
                      verifie |-> FALSE, joueur |-> joueur,
                      par_pion |-> ValidesDepuisLigne(jeu.plateau, joueur, 0)]
    /\ nb_coups' = nb_coups + 1
    /\ UNCHANGED <<jeu, ia, historique, entrees>>

NextGenerateurs == Generer

SpecGenerateurs == InitGenerateurs /\ [][NextGenerateurs]_vars

-----------------------------------------------------------------------------
(* Claims on the move generators (SpecGenerateurs) *)

\* C21: for every board and side, the list of obtenir_tous_coups_possibles is
\* the concatenation, over the cells of the side in row-major order, of the
\* moves obtenir_coups_valides gives for the cell.
C21_MemesCoups ==
    dernier.type = "generer" => dernier.coups = dernier.par_pion

\* a side with several pieces that can move
C21_Temoin ==
    /\ dernier.type = "generer"
    /\ Cardinality({m[1] : m \in Ensemble(dernier.coups)}) >= 4
    /\ Cardinality({m[1] : m \in Ensemble(dernier.par_pion)}) >= 4

-----------------------------------------------------------------------------
(* Claims on the two move applications (Spec) *)

\* C22: for every legal move played, the board simuler_coup returns for the
\* move is the board deplacer_pion (with verifier_capture) leaves.
C22_MemePlateau ==
    (dernier.type \in {"coup", "clic"} /\ dernier.ret)
        => dernier.sim = jeu.plateau

-----------------------------------------------------------------------------
(* Claims on the two terminal tests (SpecVictoire) *)

\* C23: for every board and every pair of thresholds of the options menu,
\* is_terminal_state returns for the board what verifier_victoire returns for
\* the game standing on it.
C23_MemeVainqueur ==
    (dernier.type = "coup" /\ dernier.verifie)
        => is_terminal_state(jeu.plateau, dernier.avant.joueur_actuel) = dernier.victoire

-----------------------------------------------------------------------------
(* Claims on the branches of choisir_coup (SpecChoix) *)

\* the static evaluation of the board choisir_coup was called on, for the
\* side to move, in tenths
EvalStatique ==
    AppelEval(ia[dernier.avant.joueur_actuel].eval_fonction, dernier.avant.plateau,
              dernier.avant.joueur_actuel)

\* C24: tier 4 takes the one-ply greedy branch exactly when the static
\* evaluation for the side to move is below -5, whichever side is to move, and
\* the move it then returns is a legal move whose board has the greatest
\* evaluation for that side.
C24_UrgenceSiDefavorable ==
    (dernier.type = "choix" /\ dernier.niveau = "4" /\ dernier.coups # <<>>)
        => /\ dernier.choix.voie = "urgence" <=> EvalStatique < -50
           /\ dernier.choix.voie = "urgence"
                 => \A c \in dernier.choix.retours :
                       /\ Dans(c, dernier.coups)
                       /\ \E n \in 1..Len(dernier.choix.coups) :
                             /\ dernier.choix.coups[n] = c
                             /\ \A q \in 1..Len(dernier.choix.scores) :
                                   dernier.choix.scores[q] <= dernier.choix.scores[n]

-----------------------------------------------------------------------------
(* SpecOuverture: choisir_coup called on the starting board and on boards
   with few pieces *)

\* the number of cells of CasesChoix that vary on the boards with few pieces
NbLibresOuverture == 3

\* the starting board is searched by the tiers of depth 2
CasOuverture ==
    {[jeu |-> JeuSur(PlateauFamille(FondNoirRecherche, FondBlancRecherche,
                                    CasesChoix, f), s),
      niveaux |-> Niveaux] : f \in [1..NbLibresOuverture -> 0..2], s \in {1, 2}}
    \cup {[jeu |-> NouveauJeu("ia_vs_ia"), niveaux |-> {"1", "minimax"}]}

InitOuverture ==
    /\ \E cas \in CasOuverture, niveau \in Niveaux :
          /\ niveau \in cas.niveaux
          /\ jeu = cas.jeu
          /\ ia = DeuxIA(niveau, niveau)
    /\ verifier_victoire(jeu) = 0
    /\ entrees = [zone |-> {}, script |-> <<>>, fin |-> 1, profondeur |-> 0]
    /\ dernier = TraceInit(jeu)
    /\ nb_coups = 0
    /\ historique = <<Position(jeu)>>

NextOuverture == ChoixCoup

SpecOuverture == InitOuverture /\ [][NextOuverture]_vars

-----------------------------------------------------------------------------
(* Claims on the opening shortcut (SpecOuverture) *)

\* C25: on the starting board choisir_coup returns, for every tier, a move
\* whose destination has row and column in 2..6, and does not run the tree
\* search.
C25_OuvertureAuDepart ==
    (dernier.type = "choix" /\ dernier.avant.plateau = initialiser_plateau)
        => /\ dernier.choix.voie = "ouverture"
           /\ \A c \in dernier.choix.retours : c[2][1] \in 2..6 /\ c[2][2] \in 2..6

-----------------------------------------------------------------------------
(* Claims on the configuration of the tiers (SpecChoix) *)

\* C26: when choisir_coup searches, tier 1 runs minimax with
\* evaluer_position_naive at depth 2 or 3, tier 2 alpha-beta with
\* evaluer_position_naive at depth 3 or 4, tier 3 alpha-beta with
\* evaluer_position at depth 3 or 4, tier 4 alpha-beta with evaluer_position
\* at depth 3; the depth is at least 1 and at most profondeur_max.
C26_ConfigurationDuNiveau ==
    (dernier.type = "choix" /\ dernier.choix.voie = "recherche"
                            /\ dernier.niveau \in {"1", "2", "3", "4"})
        => /\ dernier.choix.algorithme
                 = (IF dernier.niveau = "1" THEN "minimax" ELSE "alpha_beta")
           /\ dernier.choix.eval_fonction
                 = (IF dernier.niveau \in {"1", "2"} THEN "evaluer_position_naive"
                    ELSE "evaluer_position")
           /\ dernier.choix.profondeur
                 \in (CASE dernier.niveau = "1" -> {2, 3}
                        [] dernier.niveau = "2" -> {3, 4}
                        [] dernier.niveau = "3" -> {3, 4}
                        [] OTHER -> {3})
           /\ dernier.choix.profondeur >= 1
           /\ dernier.choix.profondeur
                 <= ia[dernier.avant.joueur_actuel].profondeur_max

\* tier 4 searched
C26_Temoin ==
    /\ dernier.type = "choix"
    /\ dernier.choix.voie = "recherche"
    /\ dernier.niveau = "4"
    /\ dernier.choix.profondeur = 3
    /\ dernier.choix.scores # <<>>

-----------------------------------------------------------------------------
(* SpecEvaluation: the evaluators called on a board, for either side *)

\* the cells that vary on the boards evaluated: a cross in the centre and
\* a cell of the edge
CasesEvaluation == << <<4, 4>>, <<4, 5>>, <<3, 4>>, <<5, 4>>, <<4, 8>> >>

\* the number of cells of CasesEvaluation that vary
NbLibresEvaluation == 4

Evaluateurs == {"evaluer_position_naive", "evaluer_position"}

InitEvaluation ==
    /\ \/ \E f \in [1..NbLibresEvaluation -> 0..2], s \in {1, 2} :
             jeu = JeuSur(PlateauFamille(FondNoirRecherche, FondBlancRecherche,
                                         CasesEvaluation, f), s)
       \/ \E s \in {1, 2} : jeu = [NouveauJeu("ia_vs_ia") EXCEPT !.joueur_actuel = s]
    /\ ia = DeuxIA("1", "3")
    /\ dernier = TraceInit(jeu)
    /\ nb_coups = 0
    /\ historique = <<Position(jeu)>>
    /\ entrees = [zone |-> {}, script |-> <<>>, fin |-> 1, profondeur |-> 0]

\* self.eval_fonction(plateau, joueur) on the board of the game, by ia[1]
\* (evaluer_position_naive) or ia[2] (evaluer_position), for either side
Evaluer ==
    /\ nb_coups < entrees.fin
    /\ \E k \in {1, 2}, joueur \in {1, 2} :
          dernier' = [type |-> "evaluation", avant |-> jeu, coup |-> <<>>,
                      coups |-> <<>>, sim |-> jeu.plateau, ret |-> FALSE,
                      victoire |-> 0, verifie |-> FALSE, joueur |-> joueur,
                      eval_fonction |-> ia[k].eval_fonction,
                      valeur |-> AppelEval(ia[k].eval_fonction, jeu.plateau, joueur)]
    /\ nb_coups' = nb_coups + 1
    /\ UNCHANGED <<jeu, ia, historique, entrees>>

NextEvaluation == Evaluer

SpecEvaluation == InitEvaluation /\ [][NextEvaluation]_vars

-----------------------------------------------------------------------------
(* Claims on the evaluators (SpecEvaluation) *)

\* the pieces of side cible with at least one piece of side attaquant beside
\* them
PionsMenaces(b, attaquant, cible) ==
    Cardinality({c \in Cells : b[c] = cible /\ \E d \in Voisines(c) : b[d] = attaquant})

\* the pieces of side v in the central block, rows and columns 3..5
PionsAuCentre(b, v) ==
    Cardinality({c \in Cells : c[1] \in 3..5 /\ c[2] \in 3..5 /\ b[c] = v})

\* C27: for every board and side, evaluer_position_naive is, in tenths,
\* 10 x (own pieces - opposing pieces) + 3 x (own - opposing pieces in the
\* central block) + 5 x (opposing pieces with an own piece beside them - own
\* pieces with an opposing piece beside them).
C27_ScoreDeBase ==
    (dernier.type = "evaluation" /\ dernier.eval_fonction = "evaluer_position_naive")
        => dernier.valeur
              = 10 * (Compter(dernier.sim, dernier.joueur)
                        - Compter(dernier.sim, 3 - dernier.joueur))
                + 3 * (PionsAuCentre(dernier.sim, dernier.joueur)
                         - PionsAuCentre(dernier.sim, 3 - dernier.joueur))
                + 5 * (PionsMenaces(dernier.sim, dernier.joueur, 3 - dernier.joueur)
                         - PionsMenaces(dernier.sim, 3 - dernier.joueur, dernier.joueur))

\* the threat term of the evaluators for a side, in tenths: lines 141-142
\* (weight 0.5) and lines 200-201 (weight 1.0)
TermeMenaces(eval_fonction, b, joueur) ==
    IF eval_fonction = "evaluer_position_naive"
    THEN 5 * menaces_simples(b, joueur, 3 - joueur)
         - 5 * menaces_simples(b, 3 - joueur, joueur)
    ELSE 10 * menaces(b, joueur, 3 - joueur) - 10 * menaces(b, 3 - joueur, joueur)

\* C38: for every board, each evaluator gives a side the negated value it
\* gives the other side, and so does its threat term.
C38_Antisymetrie ==
    dernier.type = "evaluation" =>
        /\ dernier.valeur
              = 0 - AppelEval(dernier.eval_fonction, dernier.sim, 3 - dernier.joueur)
        /\ TermeMenaces(dernier.eval_fonction, dernier.sim, dernier.joueur)
              = 0 - TermeMenaces(dernier.eval_fonction, dernier.sim, 3 - dernier.joueur)

\* evaluer_position on a board where the sides differ in material, in
\* mobility and in groups, a corner held and opposing pieces side by side
C38_Temoin ==
    /\ dernier.type = "evaluation"
    /\ dernier.eval_fonction = "evaluer_position"
    /\ dernier.valeur # 0
    /\ Compter(dernier.sim, 1) # Compter(dernier.sim, 2)
    /\ groupes(dernier.sim, 1) # groupes(dernier.sim, 2)
    /\ Len(obtenir_tous_coups_possibles(dernier.sim, 1))
          # Len(obtenir_tous_coups_possibles(dernier.sim, 2))
    /\ menaces(dernier.sim, 1, 2) > 0
    /\ dernier.sim[<<0, 0>>] # 0

-----------------------------------------------------------------------------
(* SpecOrdre: order_moves on the list of moves of a side, in the order of
   obtenir_tous_coups_possibles or shuffled as choisir_coup shuffles it *)

\* the number of cells of CasesRecherche that vary
NbLibresOrdre == 4

InitOrdre ==
    /\ \E f \in [1..NbLibresOrdre -> 0..2], s \in {1, 2} :
          jeu = JeuSur(PlateauFamille(FondNoirRecherche, FondBlancRecherche,
                                      CasesRecherche, f), s)
    /\ ia = DeuxIA("1", "2")
    /\ dernier = TraceInit(jeu)
    /\ nb_coups = 0
    /\ historique = <<Position(jeu)>>
    /\ entrees = [zone |-> {}, script |-> <<>>, fin |-> 1, profondeur |-> 0]

\* self.order_moves(actions, plateau, joueur) with the moves of joueur (the
\* side to move at a MAX node and at the root) or of the other side (a MIN
\* node)
Ordonner ==
    /\ nb_coups < entrees.fin
    /\ \E joueur \in {1, 2}, melange \in Melanges :
          \E actions \in {Melanger(obtenir_tous_coups_possibles(jeu.plateau, joueur),
                                   melange)} :
             dernier' = [type |-> "ordre", avant |-> jeu, coup |-> <<>>,
                         coups |-> actions, sim |-> jeu.plateau, ret |-> FALSE,
                         victoire |-> 0, verifie |-> FALSE, joueur |-> joueur,
                         tries |-> order_moves(actions, jeu.plateau, joueur)]
    /\ nb_coups' = nb_coups + 1
    /\ UNCHANGED <<jeu, ia, historique, entrees>>

NextOrdre == Ordonner

SpecOrdre == InitOrdre /\ [][NextOrdre]_vars

-----------------------------------------------------------------------------
(* Claims on order_moves (SpecOrdre) *)

\* the number of times x stands in liste
NombreDans(x, liste) == Cardinality({n \in 1..Len(liste) : liste[n] = x})

\* the number of pieces a move of joueur takes off the board b when simulated
PrisesDuCoup(b, joueur, action) ==
    Seul({Cardinality({c \in Cells : b[c] # 0 /\ apres[c] = 0 /\ c # action[1]}) :
          apres \in {simuler_coup(b, action[1], action[2], joueur)}})

CoupCentral(action) == action[2][1] \in 2..6 /\ action[2][2] \in 2..6

\* the pairs (captures, 1 for a central destination else 0) of the moves of
\* a list
PairesDesCoups(b, joueur, liste) ==
    [n \in 1..Len(liste) |-> <<PrisesDuCoup(b, joueur, liste[n]),
                               IF CoupCentral(liste[n]) THEN 1 ELSE 0>>]

\* the pair p is at least the pair q, as tuples
PaireAuMoins(p, q) == p[1] > q[1] \/ (p[1] = q[1] /\ p[2] >= q[2])

\* C28: order_moves returns a permutation of the list it is given, in
\* descending order of the pair (pieces captured by the simulated move, 1 for
\* a central destination else 0); every capturing move stands before every
\* move that captures nothing.
C28_PermutationTriee ==
    dernier.type = "ordre" =>
        /\ Len(dernier.tries) = Len(dernier.coups)
        /\ \A n \in 1..Len(dernier.coups) :
              NombreDans(dernier.coups[n], dernier.tries)
                  = NombreDans(dernier.coups[n], dernier.coups)
        /\ \A paires \in {PairesDesCoups(dernier.sim, dernier.joueur, dernier.tries)} :
              \A n \in DOMAIN paires, m \in DOMAIN paires :
                 n < m => /\ PaireAuMoins(paires[n], paires[m])
                          /\ paires[m][1] > 0 => paires[n][1] > 0

\* a list in which a move that captures and lands off the centre stands
\* after a central move that captures nothing, put in order
C28_Temoin ==
    /\ dernier.type = "ordre"
    /\ dernier.tries # dernier.coups
    /\ \E n \in 1..Len(dernier.coups), m \in 1..Len(dernier.coups) :
          /\ n < m
          /\ PrisesDuCoup(dernier.sim, dernier.joueur, dernier.coups[m]) > 0
          /\ ~CoupCentral(dernier.coups[m])
          /\ PrisesDuCoup(dernier.sim, dernier.joueur, dernier.coups[n]) = 0
          /\ CoupCentral(dernier.coups[n])

-----------------------------------------------------------------------------
(* SpecPartage: the search procedures called on two objects made by make_ia
   of selfplay_tournoi.py *)

\* SHARED_TT = SharedTT() (line 38): the one dict of the module. No line of
\* the program stores into it or reads it, so it is the empty dict in every
\* state and the attribute TT of each object holds it.
SHARED_TT == <<>>

\* make_ia(level): IA(str(level)) with the attribute TT set to SHARED_TT;
\* self.transpo is the dict IA.__init__ made for the object (line 72)
make_ia(level) ==
    [f \in DOMAIN NouvelleIA(level) \cup {"TT"} |->
        IF f = "TT" THEN SHARED_TT ELSE NouvelleIA(level)[f]]

\* the levels of the second object
NiveauxPartage == {"1", "2"}

InitPartage ==
    /\ \E f \in [1..NbLibresCache -> 0..2] :
          jeu = JeuSur(PlateauFamille(FondNoirRecherche, FondBlancRecherche,
                                      CasesRecherche, f), 1)
    /\ entrees = [zone |-> {}, script |-> <<>>, fin |-> NbAppels, profondeur |-> 1]
    /\ \E niveau \in NiveauxPartage : ia = <<make_ia("1"), make_ia(niveau)>>
    /\ dernier = TraceInit(jeu)
    /\ nb_coups = 0
    /\ historique = <<>>

NextPartage == Appel

SpecPartage == InitPartage /\ [][NextPartage]_vars

-----------------------------------------------------------------------------
(* Claims on the table of the tournament objects (SpecPartage) *)

\* the calls before the last one, made on the other object, that wrote the
\* entry of the key the last call looked up
EcrituresDeLAutre ==
    {n \in 1..(Len(historique) - 1) :
        /\ historique[n].ecrit
        /\ historique[n].objet # dernier.objet
        /\ historique[n].sim = dernier.sim
        /\ historique[n].profondeur = dernier.profondeur}

\* C29: the objects made by make_ia share one transposition table: an entry
\* written by a search on one object is found by a later lookup of the same
\* key on the other object.
C29_TablePartagee ==
    (dernier.type = "appel" /\ EcrituresDeLAutre # {}) => dernier.connu

-----------------------------------------------------------------------------
(* SpecPartie: IA.jouer_partie from its first line to its return, with the
   events pygame.event.get() gives at the top of each iteration *)

\* the digit i of the n-th word of the reflected Gray code in base 4: from
\* one word to the next, one digit changes, by one
ChiffreGray(n, i) ==
    IF ((n \div (4^(i + 1))) % 2) = 0 THEN (n \div (4^i)) % 4
    ELSE 3 - ((n \div (4^i)) % 4)

\* the k-th quiet move of a side: its pieces of columns 0..3 go through the
\* rows 0..3 from their own edge in the order of the Gray code, one step of
\* one piece at a time, so that no arrangement comes back
CoupCalme(joueur, k) ==
    LET col == CHOOSE i \in 0..3 : ChiffreGray(k - 1, i) # ChiffreGray(k, i)
        rangee(d) == IF joueur = 1 THEN d ELSE taille_plateau - 1 - d
    IN  << <<rangee(ChiffreGray(k - 1, col)), col>>, <<rangee(ChiffreGray(k, col)), col>> >>

\* the moves of black, by rank, that are not quiet: at 26 black takes the
\* white piece of <<4, 7>>, at 76 the white piece that came back there
CoupsNoirs ==
    (25 :> << <<0, 6>>, <<4, 6>> >>) @@ (26 :> << <<0, 8>>, <<4, 8>> >>)
    @@ (74 :> << <<0, 5>>, <<3, 5>> >>) @@ (75 :> << <<3, 5>>, <<3, 6>> >>)
    @@ (76 :> << <<3, 6>>, <<4, 6>> >>)

\* the moves of white, by rank, that are not quiet: at 50 white takes the
\* black piece of <<4, 6>>
CoupsBlancs ==
    (25 :> << <<8, 7>>, <<4, 7>> >>) @@ (48 :> << <<8, 5>>, <<4, 5>> >>)
    @@ (49 :> << <<8, 8>>, <<8, 7>> >>) @@ (50 :> << <<8, 7>>, <<4, 7>> >>)

\* A game of max_coups half-moves that nothing ends: three captures, one
\* every 50 half-moves or so, keep the counter of quiet half-moves under 60
\* and the piece counts within 1 of each other, and no position comes back.
ScriptLong ==
    [n \in 1..max_coups |->
        LET joueur == IF n % 2 = 1 THEN 1 ELSE 2
            rang   == (n + 1) \div 2
            autres == IF joueur = 1 THEN CoupsNoirs ELSE CoupsBlancs
        IN  IF rang \in DOMAIN autres THEN autres[rang]
            ELSE CoupCalme(joueur, rang - Cardinality({r \in DOMAIN autres : r < rang}))]

\* Black takes three white pieces while white plays quiet moves: after the
\* third capture black has 9 pieces and white 6.
ScriptVictoire ==
    << << <<0, 6>>, <<4, 6>> >>, << <<8, 7>>, <<4, 7>> >>,
       << <<0, 8>>, <<4, 8>> >>, << <<8, 8>>, <<8, 7>> >>,
       << <<0, 0>>, <<1, 0>> >>, << <<8, 7>>, <<4, 7>> >>,
       << <<4, 8>>, <<5, 8>> >>, << <<8, 0>>, <<7, 0>> >>,
       << <<5, 8>>, <<4, 8>> >>, << <<8, 6>>, <<8, 7>> >>,
       << <<1, 0>>, <<2, 0>> >>, << <<8, 7>>, <<4, 7>> >>,
       << <<4, 8>>, <<5, 8>> >>, << <<7, 0>>, <<6, 0>> >>,
       << <<5, 8>>, <<4, 8>> >> >>

\* after ScriptAvance, one black piece and one white piece each go between
\* two cells
ZoneNavette == {<<3, 0>>, <<2, 0>>, <<5, 8>>, <<6, 8>>}

\* the games of jouer_partie the model plays: the moves choisir_coup returns
\* first, the cells it takes the next ones from, and the number of
\* iterations for which it is asked
ScenariosPartie ==
    {[script |-> ScriptLong, zone |-> {}, fin |-> max_coups],
     [script |-> ScriptVictoire, zone |-> {}, fin |-> Len(ScriptVictoire)],
     [script |-> <<>>, zone |-> ZoneRepetition, fin |-> max_coups],
     [script |-> ScriptAvance, zone |-> ZoneNavette, fin |-> max_coups],
     [script |-> ScriptBlocus, zone |-> ZoneBlocus, fin |-> max_coups]}

InitPartie ==
    \E sc \in ScenariosPartie :
        /\ jeu = NouveauJeu("ia_vs_ia")
        /\ historique = <<Position(jeu)>>
        /\ nb_coups = 0
        /\ entrees = [zone |-> sc.zone, script |-> sc.script, fin |-> sc.fin,
                      profondeur |-> 0]
        /\ dernier = TraceInit(jeu)
        /\ ia = DeuxIA("1", "2")

\* the test of the while loop (line 576) holds and the function has neither
\* returned nor exited
BoucleOuverte ==
    /\ dernier.type \notin {"retour", "exit"}
    /\ ~jeu.partie_terminee
    /\ nb_coups < max_coups

\* The loop is entered and pygame.event.get() holds a QUIT event (lines
\* 577-580): pygame.quit() and exit(), the function does not return.
QuitterJouerPartie ==
    /\ BoucleOuverte
    /\ dernier' = [type |-> "exit", avant |-> jeu, coup |-> <<>>, coups |-> <<>>,
                   sim |-> jeu.plateau, ret |-> FALSE, victoire |-> 0,
                   verifie |-> FALSE]
    /\ UNCHANGED <<jeu, ia, nb_coups, historique, entrees>>

\* The test of the while loop fails (line 576): return jeu.gagnant,
\* coups_joues (line 604).
RetourJouerPartie ==
    /\ dernier.type \notin {"retour", "exit"}
    /\ jeu.partie_terminee \/ nb_coups >= max_coups
    /\ dernier' = [type |-> "retour", avant |-> jeu, coup |-> <<>>, coups |-> <<>>,
                   sim |-> jeu.plateau, ret |-> FALSE, victoire |-> 0,
                   verifie |-> FALSE,
                   gagnant |-> jeu.gagnant, coups_joues |-> nb_coups]
    /\ UNCHANGED <<jeu, ia, nb_coups, historique, entrees>>

NextPartie == TourJouerPartie \/ QuitterJouerPartie \/ RetourJouerPartie

\* The interpreter runs the loop and the return; the events are the
\* environment's. The weak fairness of TourJouerPartie is written with
\* BoucleOuverte, the condition under which an iteration can run.
SpecPartie ==
    /\ InitPartie
    /\ [][NextPartie]_vars
    /\ WF_vars(RetourJouerPartie)
    /\ ([]<>(~BoucleOuverte) \/ []<><<TourJouerPartie>>_vars)

-----------------------------------------------------------------------------
(* Claims on jouer_partie (SpecPartie) *)

\* deplacer_pion declared a draw on the object j: 60 half-moves without a
\* capture, or a position for the third time
NulleDeclaree(j) ==
    \/ j.derniere_capture >= 60
    \/ \E cle \in DOMAIN j.positions_occurrence : j.positions_occurrence[cle] >= 3

\* what jouer_partie returns: (winner, moves played) with the winner 1, 2 or
\* None (0) and at most 200 moves played, after at most 200 iterations; the
\* winner is None when a draw was declared and when the cap ended the loop,
\* and in no other case
ResultatDeLaPartie ==
    /\ nb_coups <= 200
    /\ dernier.type = "retour" =>
          /\ dernier.gagnant \in {0, 1, 2}
          /\ dernier.coups_joues = nb_coups
          /\ dernier.coups_joues <= 200
          /\ NulleDeclaree(dernier.avant) => dernier.gagnant = 0
          /\ (~dernier.avant.partie_terminee /\ dernier.coups_joues = 200)
                 => dernier.gagnant = 0
          /\ dernier.gagnant = 0
                 => NulleDeclaree(dernier.avant) \/ dernier.coups_joues = 200

\* C30 as stated: jouer_partie always ends within 200 iterations and
\* returns (winner, moves played), winner in {1, 2, None} and moves played
\* <= 200, the winner None exactly when a draw was declared or the cap of 200
\* moves was reached without a winner.
C30_RetourneToujours ==
    []ResultatDeLaPartie /\ <>(dernier.type = "retour")

\* C30, amended: unless an iteration reads a QUIT event, on which the
\* process exits without returning, jouer_partie ends within 200 iterations
\* and returns (winner, moves played), winner in {1, 2, None} and moves
\* played <= 200, the winner None exactly when a draw was declared or the cap
\* of 200 moves was reached without a winner.
C30_RetourneSaufQuit ==
    []ResultatDeLaPartie /\ <>(dernier.type \in {"retour", "exit"})

\* the game of 200 half-moves returns at the cap, no draw declared and no
\* winner
C30_Temoin ==
    /\ dernier.type = "retour"
    /\ dernier.coups_joues = 200
    /\ dernier.gagnant = 0
    /\ ~dernier.avant.partie_terminee
    /\ ~NulleDeclaree(dernier.avant)

-----------------------------------------------------------------------------
(* Claims on the whole of jouer_match (SpecTournoi) *)

\* C31: jouer_match plays one game and returns (winner, nb_moves, time_black,
\* time_white) without raising: each iteration of the loop applies the move
\* chosen to the board exactly once, the winner is 1, 2 or None (0) and
\* nb_moves is at most 400.
C31_MatchSansErreur ==
    /\ nb_coups <= 400
    /\ jeu.gagnant \in {0, 1, 2}
    /\ (dernier.type = "match" /\ dernier.coup # <<>>)
          => /\ ~dernier.leve
             /\ jeu.plateau = dernier.sim
    /\ dernier.type = "fin" => ~dernier.leve

-----------------------------------------------------------------------------
(* Claims on the boards of a game (Spec) *)

\* the last step was a click or an iteration of jouer_partie
DernierCoup == dernier.type \in {"coup", "clic"}

\* C32: in every state of a game played from the starting position by the
\* interactive loop or by jouer_partie, every cell holds 0, 1 or 2, each side
\* has between 0 and 9 pieces, no step raises a piece count, and a move
\* leaves every piece of the side that made it in place but the piece moved,
\* which stands on the destination.
C32_PlateauBienForme ==
    /\ \A c \in Cells : jeu.plateau[c] \in {0, 1, 2}
    /\ \A v \in {1, 2} : Compter(jeu.plateau, v) \in 0..9
    /\ DernierCoup =>
          /\ \A v \in {1, 2} :
                Compter(jeu.plateau, v) <= Compter(dernier.avant.plateau, v)
          /\ ~dernier.ret => jeu.plateau = dernier.avant.plateau
          /\ dernier.ret =>
                /\ jeu.plateau[dernier.coup[2]] = dernier.avant.joueur_actuel
                /\ \A c \in Cells :
                      (dernier.avant.plateau[c] = dernier.avant.joueur_actuel
                       /\ c # dernier.coup[1])
                          => jeu.plateau[c] = dernier.avant.joueur_actuel

\* a move that captured a piece of the other side
C32_Temoin ==
    /\ DernierCoup
    /\ dernier.ret
    /\ Compter(jeu.plateau, 3 - dernier.avant.joueur_actuel)
           < Compter(dernier.avant.plateau, 3 - dernier.avant.joueur_actuel)

-----------------------------------------------------------------------------
(* Claims on the winner of a move (SpecVictoire) *)

\* C33: with thresholds that do not change during the game, when the victory
\* test after an applied move reports a winner, the winner is the side that
\* made the move.
C33_VainqueurEstLeMouvant ==
    (CoupApplique /\ dernier.verifie /\ dernier.victoire # 0)
        => dernier.victoire = Mouvant

\* the side with fewer pieces captures and wins on the minimum of the other
\* side
C33_Temoin ==
    /\ CoupApplique /\ dernier.verifie
    /\ dernier.victoire = Mouvant
    /\ Compter(PlateauAvant, Mouvant) < Compter(PlateauAvant, 3 - Mouvant)
    /\ Compter(jeu.plateau, 3 - Mouvant) < Compter(PlateauAvant, 3 - Mouvant)

-----------------------------------------------------------------------------
(* Claims on the counter of quiet half-moves (Spec) *)

\* the pieces on the board of a position
PionsDe(position) == Compter(position[1], 1) + Compter(position[1], 2)

\* the applied moves since the last one that took a piece, or since the
\* start of the game: historique holds the position of the start and the
\* position after each applied move
CoupsDepuisCapture ==
    Seul({Cardinality({n \in 2..Len(pions) :
                          \A m \in n..Len(pions) : pions[m] = pions[n - 1]}) :
          pions \in {[n \in 1..Len(historique) |-> PionsDe(historique[n])]}})

\* C34: derniere_capture is between 0 and 60 and is the number of applied
\* moves since the last capturing move (since the start of the game when
\* there is none); a move sets it to 0 exactly when it captures, and a
\* rejected move leaves it as it is.
C34_CompteurSansCapture ==
    /\ jeu.derniere_capture \in 0..60
    /\ jeu.derniere_capture = CoupsDepuisCapture
    /\ DernierCoup =>
          /\ ~dernier.ret => jeu.derniere_capture = dernier.avant.derniere_capture
          /\ dernier.ret =>
                jeu.derniere_capture =
                    IF Compter(jeu.plateau, 3 - Mouvant) < Compter(PlateauAvant, 3 - Mouvant)
                    THEN 0
                    ELSE dernier.avant.derniere_capture + 1

\* a capture after quiet moves puts the counter back to 0
C34_Temoin ==
    /\ DernierCoup
    /\ dernier.ret
    /\ dernier.avant.derniere_capture > 0
    /\ Compter(jeu.plateau, 3 - Mouvant) < Compter(PlateauAvant, 3 - Mouvant)
    /\ jeu.derniere_capture = 0

-----------------------------------------------------------------------------
(* SpecAlternance: the games of Spec and a game of the interactive loop
   against the engine (mode "joueur_vs_ia": the human plays black by clicks,
   the engine plays white) *)

\* The branch "Tour de l'IA" of HasamiShogi.executer (lines 609-623) once
\* choisir_coup has returned coup (<<>> for None).
IterationExecuterIA(j, coup) ==
    IF coup = <<>>
    THEN [jeu |-> j, ret |-> FALSE, victoire |-> 0, verifie |-> FALSE]
    ELSE Seul({IF ~Dans(coup[2], j1.coups_valides)
               THEN [jeu |-> j1, ret |-> FALSE, victoire |-> 0, verifie |-> FALSE]
               ELSE Seul({IF ~d.ret
                          THEN [jeu |-> d.jeu, ret |-> FALSE, victoire |-> 0,
                                verifie |-> FALSE]
                          ELSE [jeu |-> IF g # 0
                                        THEN [d.jeu EXCEPT !.gagnant = g,
                                                           !.partie_terminee = TRUE]
                                        ELSE [d.jeu EXCEPT !.gagnant = g,
                                                           !.joueur_actuel = 1],
                                ret |-> TRUE, victoire |-> g, verifie |-> TRUE] :
                          d \in {deplacer_pion(j1, coup[1], coup[2])},
                          g \in {verifier_victoire(deplacer_pion(j1, coup[1], coup[2]).jeu)}}) :
               j1 \in {[j EXCEPT !.coups_valides =
                                     obtenir_coups_valides(j.plateau, coup[1])]}})

ScenariosContreIA ==
    {[mode |-> "joueur_vs_ia", script |-> <<>>, zone |-> ZoneRepetition, coins |-> TRUE]}

InitAlternance ==
    \E sc \in Scenarios \cup ScenariosContreIA :
        /\ jeu = [NouveauJeu(sc.mode) EXCEPT !.capture_multiple_corners = sc.coins]
        /\ historique = <<Position(jeu)>>
        /\ nb_coups = 0
        /\ entrees = [zone |-> sc.zone, script |-> sc.script,
                      fin |-> Len(sc.script) + MaxTours, profondeur |-> 0]
        /\ dernier = TraceInit(jeu)
        /\ ia = DeuxIA("1", "2")

\* One click on a cell of the board in HasamiShogi.executer against the
\* engine: the click is read only while black is to move (line 589).
ClicContreIA ==
    /\ jeu.mode_jeu = "joueur_vs_ia"
    /\ ~jeu.partie_terminee
    /\ jeu.joueur_actuel = 1
    /\ nb_coups < entrees.fin
    /\ \E case \in entrees.zone :
          \E r \in {ClicCase(jeu, case)} :
          LET coup == IF jeu.pion_selectionne = <<>> THEN <<>>
                      ELSE <<jeu.pion_selectionne, case>>
          IN  /\ jeu' = r.jeu
              /\ dernier' = Trace("clic", jeu, coup, r)
              /\ historique' = IF r.ret
                               THEN Append(historique, PositionApres(jeu, r.jeu))
                               ELSE historique
              /\ nb_coups' = IF r.ret THEN nb_coups + 1 ELSE nb_coups
    /\ UNCHANGED <<ia, entrees>>

\* The engine's turn in HasamiShogi.executer (lines 609-623): choisir_coup
\* returns None when white has no move, and a legal move otherwise.
TourIAExecuter ==
    /\ jeu.mode_jeu = "joueur_vs_ia"
    /\ ~jeu.partie_terminee
    /\ jeu.joueur_actuel = 2
    /\ nb_coups < entrees.fin
    /\ \E tous \in {obtenir_tous_coups_possibles(jeu.plateau, jeu.joueur_actuel)} :
          \E coup \in (IF tous = <<>> THEN {<<>>}
                       ELSE {c \in Ensemble(tous) :
                                c[1] \in entrees.zone /\ c[2] \in entrees.zone}) :
             \E r \in {IterationExecuterIA(jeu, coup)} :
                 /\ jeu' = r.jeu
                 /\ dernier' = Trace("coup", jeu, coup, r)
                 /\ historique' = IF r.ret
                                  THEN Append(historique, PositionApres(jeu, r.jeu))
                                  ELSE historique
    /\ nb_coups' = nb_coups + 1
    /\ UNCHANGED <<ia, entrees>>

NextAlternance ==
    TourJouerPartie \/ Clic \/ Recommencer \/ ClicContreIA \/ TourIAExecuter

SpecAlternance == InitAlternance /\ [][NextAlternance]_vars

-----------------------------------------------------------------------------
(* Claims on the side to move (SpecAlternance) *)

\* C35: in the interactive loop and in jouer_partie the piece moved belongs
\* to the side to move; after an applied move that does not end the game by
\* victory the other side is to move; a rejected move, a selection or a
\* deselection leaves the side to move as it is.
C35_AlternanceStricte ==
    DernierCoup =>
        /\ dernier.ret =>
              /\ PlateauAvant[dernier.coup[1]] = dernier.avant.joueur_actuel
              /\ dernier.victoire = 0
                    => jeu.joueur_actuel = 3 - dernier.avant.joueur_actuel
        /\ ~dernier.ret => jeu.joueur_actuel = dernier.avant.joueur_actuel

\* a click on a cell the selected piece cannot reach: the selection is
\* dropped and the same side is to move
C35_Temoin ==
    /\ dernier.type = "clic"
    /\ dernier.coup # <<>>
    /\ ~dernier.ret
    /\ jeu.pion_selectionne = <<>>
    /\ jeu.joueur_actuel = dernier.avant.joueur_actuel

-----------------------------------------------------------------------------
(* jouer_partie with the search engine choosing the moves (SpecMoteur): a
   few iterations from open boards, each object keeping its table from one
   of its calls to the next *)

\* the iterations run in the games searched at depth 3
ToursMoteur == 3

\* the cells of the block whose colours vary
CasesBloc == << <<0, 0>>, <<0, 1>>, <<0, 2>>, <<1, 0>>, <<1, 1>>, <<1, 2>> >>

\* Twelve pieces in a block in a corner, six a side: the board has 69
\* empty cells, so choisir_coup searches, before a capture and after one,
\* and the pieces inside the block have no move. f colours the cells of
\* CasesBloc.
PlateauBloc(f) ==
    PlateauFamille({<<2, 0>>, <<2, 2>>, <<0, 3>>}, {<<2, 1>>, <<1, 3>>, <<2, 3>>},
                   CasesBloc, f)

\* the colourings of the block with three pieces a side, the corner black
\* and its neighbour in the row white
Colorations ==
    {f \in [1..Len(CasesBloc) -> 1..2] :
        /\ f[1] = 1
        /\ f[2] = 2
        /\ Cardinality({n \in 1..Len(CasesBloc) : f[n] = 1}) = 3}

\* black on <<0, 0>>, <<1, 1>>, <<0, 2>>
ColorationDamier == <<1, 2, 1, 2, 1, 2>>

\* the games played: ToursMoteur iterations searched at depth 3 by the tier
\* "3", and one iteration searched at depth 2 by the default tier from
\* every colouring
ScenariosMoteur ==
    {[plateau |-> PlateauBloc(ColorationDamier), joueur |-> 1, niveau |-> "3",
      fin |-> ToursMoteur]}
    \cup {[plateau |-> PlateauBloc(f), joueur |-> s, niveau |-> "minimax", fin |-> 1] :
             f \in Colorations, s \in {1}}

InitMoteur ==
    /\ \E sc \in ScenariosMoteur :
          /\ jeu = JeuSur(sc.plateau, sc.joueur)
          /\ ia = DeuxIA(sc.niveau, sc.niveau)
          /\ entrees = [zone |-> {}, script |-> <<>>, fin |-> sc.fin, profondeur |-> 0]
    /\ verifier_victoire(jeu) = 0
    /\ dernier = TraceInit(jeu)
    /\ nb_coups = 0
    /\ historique = <<Position(jeu)>>

\* One iteration of the while loop of IA.jouer_partie (lines 578-602), the
\* call of choisir_coup included: the object of the side to move searches,
\* keeps the table the search leaves, and the move it returns is played.
TourMoteur ==
    /\ jeu.mode_jeu = "ia_vs_ia"
    /\ ~jeu.partie_terminee
    /\ nb_coups < max_coups
    /\ nb_coups < entrees.fin
    /\ \E melange \in Melanges :
          \E c \in {choisir_coup(ia[jeu.joueur_actuel], jeu.plateau,
                                 jeu.joueur_actuel, melange)} :
              \E coup \in c.retours :
                  \E r \in {IterationJouerPartie([jeu EXCEPT !.plateau = c.appelant],
                                                 coup)} :
                      /\ jeu' = r.jeu
                      /\ ia' = [ia EXCEPT ![jeu.joueur_actuel].transpo = c.transpo]
                      /\ dernier' = [type |-> "moteur", avant |-> jeu, coup |-> coup,
                                     coups |-> c.coups, sim |-> r.jeu.plateau,
                                     ret |-> r.ret, victoire |-> r.victoire,
                                     verifie |-> r.verifie,
                                     niveau |-> ia[jeu.joueur_actuel].niveau,
                                     objet |-> ia[jeu.joueur_actuel], choix |-> c]
                      /\ historique' = IF r.ret
                                       THEN Append(historique, PositionApres(jeu, r.jeu))
                                       ELSE historique
    /\ nb_coups' = nb_coups + 1
    /\ UNCHANGED entrees

NextMoteur == TourMoteur

SpecMoteur == InitMoteur /\ [][NextMoteur]_vars

\* the last iteration ran the alpha-beta root loop
RechercheAlphaBeta ==
    /\ dernier.type = "moteur"
    /\ dernier.choix.voie = "recherche"
    /\ dernier.choix.algorithme = "alpha_beta"

\* the value of the node the key <<board, depth>> stands for in the last
\* search, as the procedure of that node returns it with the full window and
\* an empty table: the root loop calls AB_MIN_VALUE one level under the
\* root, and the two procedures alternate
ValeurExacte(cle) ==
    IF (dernier.choix.profondeur - 1 - cle[2]) % 2 = 0
    THEN AB_MIN_VALUE(<<>>, cle[1], dernier.avant.joueur_actuel, cle[2], -Inf, Inf,
                      dernier.choix.eval_fonction).v
    ELSE AB_MAX_VALUE(<<>>, cle[1], dernier.avant.joueur_actuel, cle[2], -Inf, Inf,
                      dernier.choix.eval_fonction).v

\* the entries the last search wrote
EntreesEcrites == DOMAIN dernier.choix.transpo \ DOMAIN dernier.objet.transpo

\* C36: every entry the alpha-beta search of choisir_coup writes in the
\* table is the value the procedure of that node returns for the board and
\* the depth with the window (-inf, +inf) and an empty table, and the entries
\* the table held before the call keep their values.
C36_EntreesExactes ==
    RechercheAlphaBeta =>
        /\ \A cle \in EntreesEcrites : dernier.choix.transpo[cle] = ValeurExacte(cle)
        /\ \A cle \in DOMAIN dernier.objet.transpo :
              /\ cle \in DOMAIN dernier.choix.transpo
              /\ dernier.choix.transpo[cle] = dernier.objet.transpo[cle]

\* an object searches with the table of its earlier call and finds one of
\* its entries again, writes new ones, and leaves a node out after a cut
C36_Temoin ==
    /\ RechercheAlphaBeta
    /\ dernier.objet.transpo # <<>>
    /\ EntreesEcrites # {}
    /\ \E n \in DOMAIN dernier.choix.coups :
          \E fils \in {simuler_coup(dernier.avant.plateau, dernier.choix.coups[n][1],
                                    dernier.choix.coups[n][2],
                                    dernier.avant.joueur_actuel)} :
              /\ <<fils, dernier.choix.profondeur - 1>> \in EntreesEcrites
              /\ \E a \in Ensemble(obtenir_tous_coups_possibles(
                                       fils, 3 - dernier.avant.joueur_actuel)) :
                    \E petit \in {simuler_coup(fils, a[1], a[2],
                                               3 - dernier.avant.joueur_actuel)} :
                        /\ is_terminal_state(petit, dernier.avant.joueur_actuel) = 0
                        /\ obtenir_tous_coups_possibles(
                               petit, dernier.avant.joueur_actuel) # <<>>
                        /\ dernier.choix.profondeur >= 3
                        /\ <<petit, dernier.choix.profondeur - 2>>
                               \notin DOMAIN dernier.choix.transpo

-----------------------------------------------------------------------------
(* Claims on the shuffle of choisir_coup (SpecChoix) *)

\* the call of the last step again, by a new object of the same tier on the
\* same board for the same side, the shuffle leaving the list as it is
AppelSansMelange ==
    choisir_coup(NouvelleIA(dernier.niveau), dernier.avant.plateau,
                 dernier.avant.joueur_actuel, "identite")

\* the root moves of a call with the scores the call gave them
ScoresParCoup(c) == {<<c.coups[n], c.scores[n]>> : n \in 1..Len(c.coups)}

\* the root moves of a call whose score is the best
CoupsAuMeilleurScore(c) ==
    {c.coups[n] : n \in {k \in 1..Len(c.coups) :
                            \A q \in 1..Len(c.coups) : c.scores[q] <= c.scores[k]}}

\* C37: on a board, for a side and a tier, with the table as it was, every
\* root move gets the same score and the same moves tie for the best score
\* whatever order the shuffle leaves the moves in; the move returned is one
\* of those with the best score.
C37_HasardDepartageSeul ==
    (dernier.type = "choix" /\ dernier.choix.voie \in {"recherche", "urgence"}) =>
        \E ref \in {AppelSansMelange} :
            /\ ref.voie = dernier.choix.voie
            /\ ScoresParCoup(dernier.choix) = ScoresParCoup(ref)
            /\ dernier.choix.voie = "recherche" => dernier.choix.retours = ref.retours
            /\ dernier.choix.retours \subseteq CoupsAuMeilleurScore(ref)

\* a search over the moves in another order than without the shuffle, the
\* scores not all equal and several moves tied for the best
C37_Temoin ==
    /\ dernier.type = "choix"
    /\ dernier.choix.voie = "recherche"
    /\ Cardinality(dernier.choix.retours) >= 2
    /\ Cardinality(Ensemble(dernier.choix.scores)) >= 2
    /\ \E ref \in {AppelSansMelange} : ref.coups # dernier.choix.coups

-----------------------------------------------------------------------------
(* Claims on the procedure the root loop runs (SpecChoix) *)

\* C40: whatever tier name the object was built with, the root loop of
\* choisir_coup runs the alpha-beta procedure when the flag
\* utilise_alpha_beta of the object is true, and the minimax procedure when
\* it is false.
C40_ProcedureSelonLeDrapeau ==
    (dernier.type = "choix" /\ dernier.choix.voie = "recherche") =>
        (dernier.choix.algorithme = "alpha_beta"
            <=> ia[dernier.avant.joueur_actuel].utilise_alpha_beta)

-----------------------------------------------------------------------------
(* SpecFin: the rules played without a cap on the number of moves, each
   legal move applied by deplacer_pion and followed by verifier_victoire, a
   side without a move forfeiting *)

\* the half-move of the last capture of ScriptLong
DerniereCaptureDuScript ==
    2 * (CHOOSE r \in DOMAIN CoupsNoirs : \A q \in DOMAIN CoupsNoirs : q <= r) - 1

\* ScriptLong played on, past the cap of jouer_partie, with quiet moves until
\* 60 half-moves have passed since its last capture
ScriptJusquaNulle ==
    [n \in 1..(DerniereCaptureDuScript + LimiteSansCapture) |->
        LET joueur == IF n % 2 = 1 THEN 1 ELSE 2
            rang   == (n + 1) \div 2
            autres == IF joueur = 1 THEN CoupsNoirs ELSE CoupsBlancs
        IN  IF rang \in DOMAIN autres THEN autres[rang]
            ELSE CoupCalme(joueur, rang - Cardinality({r \in DOMAIN autres : r < rang}))]

\* the games played to their end: the moves played first and the cells the
\* next ones are taken from
ScenariosFin ==
    {[script |-> ScriptJusquaNulle, zone |-> {}],
     [script |-> ScriptVictoire, zone |-> {}],
     [script |-> <<>>, zone |-> ZoneRepetition],
     [script |-> ScriptAvance, zone |-> ZoneNavette],
     [script |-> ScriptBlocus, zone |-> ZoneBlocus]}

InitFin ==
    \E sc \in ScenariosFin :
        /\ jeu = NouveauJeu("ia_vs_ia")
        /\ historique = <<Position(jeu)>>
        /\ nb_coups = 0
        /\ entrees = [zone |-> sc.zone, script |-> sc.script, fin |-> 0,
                      profondeur |-> 0]
        /\ dernier = TraceInit(jeu)
        /\ ia = DeuxIA("1", "2")

\* the moves the side to move is given to play: the next one of the script,
\* a legal move within the zone, or none when the side has no legal move
CoupsProposes ==
    LET tous == obtenir_tous_coups_possibles(jeu.plateau, jeu.joueur_actuel)
    IN  IF Scripte THEN {entrees.script[nb_coups + 1]}
        ELSE IF tous = <<>> THEN {<<>>}
        ELSE {c \in Ensemble(tous) : c[1] \in entrees.zone /\ c[2] \in entrees.zone}

\* One legal move of the side to move: coups_valides, deplacer_pion,
\* verifier_victoire and the change of side (lines 586-594 of jouer_partie),
\* or the forfeit of the side without a move (lines 595-597); the loop
\* condition on the number of moves is left out.
CoupRegles ==
    /\ ~jeu.partie_terminee
    /\ \E coup \in CoupsProposes :
          \E r \in {IterationJouerPartie(jeu, coup)} :
              /\ jeu' = r.jeu
              /\ dernier' = Trace("coup", jeu, coup, r)
              /\ historique' = IF r.ret
                               THEN Append(historique, PositionApres(jeu, r.jeu))
                               ELSE historique
    /\ nb_coups' = nb_coups + 1
    /\ UNCHANGED <<ia, entrees>>

NextFin == CoupRegles

\* CoupRegles can be taken: the game is not over and the side to move is
\* given a move, or none to forfeit on
PeutJouer == ~jeu.partie_terminee /\ CoupsProposes # {}

\* The side to move plays as long as the game is not over: the weak
\* fairness WF_vars(CoupRegles), written with PeutJouer, the condition
\* under which CoupRegles can be taken.
SpecFin ==
    /\ InitFin
    /\ [][NextFin]_vars
    /\ ([]<>(~PeutJouer) \/ []<><<CoupRegles>>_vars)

-----------------------------------------------------------------------------
(* Claims on the end of the game (SpecFin) *)

\* the game is over, won or drawn
FinDePartie ==
    /\ jeu.partie_terminee
    /\ jeu.gagnant \in {1, 2} \/ NulleDeclaree(jeu)

\* what the rules leave to play: the pieces on the board, then the quiet
\* half-moves before the draw
Rang(j) ==
    (LimiteSansCapture + 1) * (Compter(j.plateau, 1) + Compter(j.plateau, 2))
    + (LimiteSansCapture - j.derniere_capture)

\* every move applied takes from what is left to play
RangDiminue ==
    (~jeu.partie_terminee /\ dernier'.type = "coup" /\ dernier'.ret)
        => Rang(jeu') < Rang(jeu)

\* C39: from the starting position, every sequence of legal moves applied by
\* deplacer_pion and followed by verifier_victoire, a side without a move
\* forfeiting, reaches the end of the game, won or drawn, with no cap on the
\* number of moves: each move takes a piece off the board or adds to the
\* count of quiet half-moves, which ends the game at 60.
C39_FinParLesRegles ==
    /\ [](Rang(jeu) >= 0)
    /\ [](jeu.derniere_capture >= LimiteSansCapture => jeu.partie_terminee)
    /\ [][RangDiminue]_vars
    /\ <>FinDePartie

\* a game that has gone past the 200 moves of jouer_partie and is drawn at
\* its 60th half-move without a capture
C39_Temoin ==
    /\ nb_coups > max_coups
    /\ jeu.partie_terminee
    /\ jeu.derniere_capture >= LimiteSansCapture
    /\ jeu.gagnant = 0

=============================================================================
